---- MODULE Spec2Model ----
(***************************************************************************)
(* Model of codex-rs/cli/src/status.rs: run_status (session discovery,     *)
(* live rate-limit fetch, session-log fallback, quota rows) and            *)
(* extract_session_data (the line-by-line scan of a session log).          *)
(***************************************************************************)
EXTENDS Integers, Sequences, FiniteSets, TLC

\* Longest session log scanned under ScanSpec.
MaxLogLen == 3
\* Longest session log on disk under Spec (the whole of run_status).
MaxStatusLogLen == 2

(***************************************************************************)
(* Option and Result values.                                               *)
(***************************************************************************)
None == [t |-> "none"]
Some(x) == [t |-> "some", v |-> x]
IsSome(o) == o.t = "some"
Ok(x) == [t |-> "ok", v |-> x]
Err(e) == [t |-> "err", e |-> e]
IsOk(r) == r.t = "ok"
IsErr(r) == r.t = "err"

(***************************************************************************)
(* serde_json::Value, and the two accessors the scan uses on it.           *)
(***************************************************************************)
JNull == [t |-> "null"]
JStr(s) == [t |-> "str", s |-> s]
JNum(n) == [t |-> "num", n |-> n]
JBool(b) == [t |-> "bool", b |-> b]
JObj(f) == [t |-> "obj", f |-> f]
\* The text of the line is not JSON at all.
Invalid == [t |-> "invalid"]

\* Value::get(key): Some(member) on an object that has the key, else None.
Get(v, k) == IF v.t = "obj" /\ k \in DOMAIN v.f THEN Some(v.f[k]) ELSE None

\* opt.and_then(|v| v.as_str()) == Some(s)
AsStrIs(o, s) == IsSome(o) /\ o.v.t = "str" /\ o.v.s = s

(***************************************************************************)
(* TokenUsage and RateLimitSnapshot (codex_core::protocol) and their       *)
(* deserialization from a JSON value.                                      *)
(***************************************************************************)
UsageFields ==
    {"input_tokens", "cached_input_tokens", "output_tokens",
     "reasoning_output_tokens", "total_tokens"}

TokenUsageDefault ==
    [input_tokens |-> 0, cached_input_tokens |-> 0, output_tokens |-> 0,
     reasoning_output_tokens |-> 0, total_tokens |-> 0]

\* serde_json::from_value::<TokenUsage>: an object carrying the five counters
\* as numbers deserializes; anything that is not such an object is an error.
FromValueTokenUsage(v) ==
    IF v.t = "obj" /\ UsageFields \subseteq DOMAIN v.f
       /\ \A k \in UsageFields : v.f[k].t = "num"
    THEN Ok([k \in UsageFields |-> v.f[k].n])
    ELSE Err("usage")

\* Option<i64> member: missing or null is None, a number is Some, else error.
OptNum(o) ==
    IF ~IsSome(o) \/ o.v.t = "null" THEN Ok(None)
    ELSE IF o.v.t = "num" THEN Ok(Some(o.v.n))
    ELSE Err("type")

\* RateLimitWindow {used_percent, window_minutes?, resets_at?}
FromValueWindow(v) ==
    IF v.t = "obj" /\ "used_percent" \in DOMAIN v.f /\ v.f["used_percent"].t = "num"
       /\ IsOk(OptNum(Get(v, "window_minutes"))) /\ IsOk(OptNum(Get(v, "resets_at")))
    THEN Ok([used_percent |-> v.f["used_percent"].n,
             window_minutes |-> OptNum(Get(v, "window_minutes")).v,
             resets_at |-> OptNum(Get(v, "resets_at")).v])
    ELSE Err("window")

OptWindow(o) ==
    IF ~IsSome(o) \/ o.v.t = "null" THEN Ok(None)
    ELSE IF IsOk(FromValueWindow(o.v)) THEN Ok(Some(FromValueWindow(o.v).v))
    ELSE Err("window")

\* CreditsSnapshot {has_credits, unlimited, balance?}
FromValueCredits(v) ==
    IF v.t = "obj" /\ {"has_credits", "unlimited"} \subseteq DOMAIN v.f
       /\ v.f["has_credits"].t = "bool" /\ v.f["unlimited"].t = "bool"
       /\ (IsSome(Get(v, "balance")) => Get(v, "balance").v.t \in {"str", "null"})
    THEN Ok([has_credits |-> v.f["has_credits"].b,
             unlimited |-> v.f["unlimited"].b,
             balance |-> IF IsSome(Get(v, "balance")) /\ Get(v, "balance").v.t = "str"
                         THEN Some(Get(v, "balance").v.s) ELSE None])
    ELSE Err("credits")

OptCredits(o) ==
    IF ~IsSome(o) \/ o.v.t = "null" THEN Ok(None)
    ELSE IF IsOk(FromValueCredits(o.v)) THEN Ok(Some(FromValueCredits(o.v).v))
    ELSE Err("credits")

\* serde_json::from_value::<RateLimitSnapshot>
FromValueRateLimitSnapshot(v) ==
    IF v.t = "obj" /\ IsOk(OptWindow(Get(v, "primary")))
       /\ IsOk(OptWindow(Get(v, "secondary"))) /\ IsOk(OptCredits(Get(v, "credits")))
    THEN Ok([primary |-> OptWindow(Get(v, "primary")).v,
             secondary |-> OptWindow(Get(v, "secondary")).v,
             credits |-> OptCredits(Get(v, "credits")).v])
    ELSE Err("rate_limits")

(***************************************************************************)
(* The lines a session log is made of.  A line is its bytes' decodability  *)
(* and, for text, the JSON value serde_json::from_str gives (or Invalid).  *)
(***************************************************************************)
TextLine(j) == [utf8 |-> TRUE, json |-> j]

UsageJson(total) ==
    JObj([input_tokens |-> JNum(total - 40), cached_input_tokens |-> JNum(0),
          output_tokens |-> JNum(40), reasoning_output_tokens |-> JNum(0),
          total_tokens |-> JNum(total)])

WindowJson(u, m, r) ==
    JObj([used_percent |-> JNum(u), window_minutes |-> JNum(m), resets_at |-> JNum(r)])

\* The rate_limits object of test_extract_session_data_with_rate_limits.
RLJsonTest ==
    JObj([primary |-> WindowJson(1, 300, 1736789074),
          secondary |-> WindowJson(5, 10080, 1737393874)])
\* A primary window alone, without window_minutes and resets_at.
RLJsonPrimary == JObj([primary |-> JObj([used_percent |-> JNum(50)])])

EventMsg(payload) == TextLine(JObj([type |-> JStr("event_msg"), payload |-> payload]))

L_BadJson == TextLine(Invalid)
L_BadUtf8 == [utf8 |-> FALSE, json |-> Invalid]
L_Scalar == TextLine(JNum(42))
\* Not an event_msg, though its payload looks like a token count.
L_OtherType ==
    TextLine(JObj([type |-> JStr("response_item"),
                   payload |-> JObj([type |-> JStr("token_count"),
                                     info |-> JObj([total_token_usage |-> UsageJson(3000)]),
                                     rate_limits |-> RLJsonPrimary])]))
\* An event_msg of another kind, though it carries rate_limits.
L_OtherEvent ==
    EventMsg(JObj([type |-> JStr("agent_message"), rate_limits |-> RLJsonTest]))
L_Usage1 ==
    EventMsg(JObj([type |-> JStr("token_count"),
                   info |-> JObj([total_token_usage |-> UsageJson(1000)])]))
L_Usage2BadRL ==
    EventMsg(JObj([type |-> JStr("token_count"),
                   info |-> JObj([total_token_usage |-> UsageJson(2000)]),
                   rate_limits |-> JStr("oops")]))
L_RLOnly ==
    EventMsg(JObj([type |-> JStr("token_count"), info |-> JNull,
                   rate_limits |-> RLJsonPrimary]))
L_Both ==
    EventMsg(JObj([type |-> JStr("token_count"),
                   info |-> JObj([total_token_usage |-> UsageJson(100)]),
                   rate_limits |-> RLJsonTest]))
L_Neither == EventMsg(JObj([type |-> JStr("token_count")]))
L_BadUsageGoodRL ==
    EventMsg(JObj([type |-> JStr("token_count"),
                   info |-> JObj([total_token_usage |-> JStr("oops")]),
                   rate_limits |-> RLJsonTest]))

Lines ==
    {L_BadJson, L_BadUtf8, L_Scalar, L_OtherType, L_OtherEvent, L_Usage1,
     L_Usage2BadRL, L_RLOnly, L_Both, L_Neither, L_BadUsageGoodRL}

\* The lines of the logs on disk under Spec.
StatusLines == {L_BadUtf8, L_OtherEvent, L_Usage1, L_RLOnly, L_Both}

LogsUpTo(S, n) == UNION {[1..k -> S] : k \in 0..n}

(***************************************************************************)
(* Rendering of the quota rows.                                            *)
(***************************************************************************)
BAR_WIDTH == 20

\* print_field(label, value, label_width): one labelled row.
Field(label, value) == [kind |-> "field", label |-> label, value |-> value]

\* A mutation of format_duration_label: the tier boundaries are inclusive.
format_duration_label_Inclusive(minutes) ==
    IF minutes <= 60 THEN ToString(minutes) \o "m"
    ELSE IF minutes <= 1440 THEN ToString(minutes \div 60) \o "h"
    ELSE IF minutes <= 10080 THEN ToString(minutes \div 1440) \o "d"
    ELSE "Weekly"

\* fn format_duration_label(minutes: i64) -> String
format_duration_label(minutes) ==
    IF minutes < 60 THEN ToString(minutes) \o "m"
    ELSE IF minutes < 1440 THEN ToString(minutes \div 60) \o "h"
    ELSE IF minutes < 10080 THEN ToString(minutes \div 1440) \o "d"
    ELSE "Weekly"

\* f64::round(x / 5) as usize for an integral x: half away from zero, and the
\* cast of a negative value saturates to 0.
RoundFifthAsUsize(x) == IF x < 0 THEN 0 ELSE (2 * x + 5) \div 10

\* f64::round(num / den) as usize, den > 0: half away from zero, and the cast
\* of a negative value saturates to 0.
RoundAsUsize(num, den) == IF num < 0 THEN 0 ELSE (2 * num + den) \div (2 * den)

\* format!("{:.0}", x) for x = x10 / 10: the nearest integer, a tie going to
\* the even one, with the sign of x kept.
FormatFixed0(x10) ==
    LET a == IF x10 < 0 THEN 0 - x10 ELSE x10
        q == a \div 10
        r == a % 10
        n == IF r < 5 THEN q
             ELSE IF r > 5 THEN q + 1
             ELSE IF q % 2 = 0 THEN q ELSE q + 1
    IN  (IF x10 < 0 THEN "-" ELSE "") \o ToString(n)

\* "\u{2588}" and "\u{2591}"
FULL_BLOCK == "U+2588"
LIGHT_SHADE == "U+2591"

\* str::repeat
Repeat(c, n) == [i \in 1..n |-> c]

\* A mutation of display_rate_limit_bar_tenths: the bar and the number show
\* the part used.
display_rate_limit_bar_tenths_Used(label, used_x10, resets_at) ==
    LET filled == RoundAsUsize(used_x10 * BAR_WIDTH, 1000)
        empty == IF filled > BAR_WIDTH THEN 0 ELSE BAR_WIDTH - filled
    IN  [kind |-> "bar", label |-> label, filled |-> filled, empty |-> empty,
         bar |-> Repeat(FULL_BLOCK, filled) \o Repeat(LIGHT_SHADE, empty),
         left |-> FormatFixed0(used_x10) \o "% left",
         resets_at |-> resets_at]

\* display_rate_limit_bar for a used_percent of used_x10 / 10: the cell counts,
\* the bar "[filled cells, empty cells]" and the text "{:.0}% left".
display_rate_limit_bar_tenths(label, used_x10, resets_at) ==
    LET percent_left_x10 == 1000 - used_x10
        filled == RoundAsUsize(percent_left_x10 * BAR_WIDTH, 1000)
        empty == IF filled > BAR_WIDTH THEN 0 ELSE BAR_WIDTH - filled
    IN  [kind |-> "bar", label |-> label, filled |-> filled, empty |-> empty,
         bar |-> Repeat(FULL_BLOCK, filled) \o Repeat(LIGHT_SHADE, empty),
         left |-> FormatFixed0(percent_left_x10) \o "% left",
         resets_at |-> resets_at]

\* A mutation of display_rate_limit_bar: the cells filled are the part used.
display_rate_limit_bar_UsedFraction(label, used_percent, resets_at) ==
    LET filled == RoundFifthAsUsize(used_percent)
        empty == IF filled > BAR_WIDTH THEN 0 ELSE BAR_WIDTH - filled
    IN  [display_rate_limit_bar_tenths(label, 10 * used_percent, resets_at)
           EXCEPT !.filled = filled, !.empty = empty,
                  !.bar = Repeat(FULL_BLOCK, filled) \o Repeat(LIGHT_SHADE, empty)]

\* display_rate_limit_bar for a whole used_percent.
display_rate_limit_bar(label, used_percent, resets_at) ==
    display_rate_limit_bar_tenths(label, 10 * used_percent, resets_at)

WindowRow(w, fallback) ==
    IF IsSome(w)
    THEN << display_rate_limit_bar(
              (IF IsSome(w.v.window_minutes)
               THEN format_duration_label(w.v.window_minutes.v)
               ELSE fallback) \o " limit",
              w.v.used_percent, w.v.resets_at) >>
    ELSE << >>

\* A mutation of CreditsRow: a balance is shown even when credits are unlimited.
CreditsRow_BalanceFirst(c) ==
    IF IsSome(c) /\ c.v.has_credits
    THEN IF IsSome(c.v.balance)
         THEN << Field("Credits", c.v.balance.v \o " credits") >>
         ELSE IF c.v.unlimited THEN << Field("Credits", "Unlimited") >>
              ELSE << >>
    ELSE << >>

\* display_rate_limits: the credits part.
CreditsRow(c) ==
    IF IsSome(c) /\ c.v.has_credits
    THEN IF c.v.unlimited THEN << Field("Credits", "Unlimited") >>
         ELSE IF IsSome(c.v.balance)
              THEN << Field("Credits", c.v.balance.v \o " credits") >>
              ELSE << >>
    ELSE << >>

\* A mutation of display_rate_limits: the secondary window comes first.
display_rate_limits_SecondaryFirst(limits) ==
    WindowRow(limits.secondary, "Weekly") \o WindowRow(limits.primary, "5h")
        \o CreditsRow(limits.credits)

\* display_rate_limits: the rows printed for one snapshot.
display_rate_limits(limits) ==
    WindowRow(limits.primary, "5h") \o WindowRow(limits.secondary, "Weekly")
        \o CreditsRow(limits.credits)

\* A mutation of NotAvailable: a zero-percent bar instead of the message.
NotAvailable_ZeroBar == << display_rate_limit_bar("5h limit", 100, None) >>

\* The fallback message of run_status, printed when no snapshot is at hand.
NotAvailable == << Field("5h limit", "data not available yet") >>

(***************************************************************************)
(* The extractor: what one line of the log yields.                         *)
(***************************************************************************)
\* The payload of an event_msg / token_count line, None for any other line.
TokenCountPayload(line) ==
    IF line.json.t = "invalid" THEN None
    ELSE IF ~AsStrIs(Get(line.json, "type"), "event_msg") THEN None
    ELSE IF ~IsSome(Get(line.json, "payload")) THEN None
    ELSE IF ~AsStrIs(Get(Get(line.json, "payload").v, "type"), "token_count") THEN None
    ELSE Get(line.json, "payload")

\* payload.info.total_token_usage, deserialized.
ExtractUsage(payload) ==
    IF ~IsSome(payload) THEN None
    ELSE IF ~IsSome(Get(payload.v, "info")) THEN None
    ELSE IF ~IsSome(Get(Get(payload.v, "info").v, "total_token_usage")) THEN None
    ELSE LET r == FromValueTokenUsage(Get(Get(payload.v, "info").v, "total_token_usage").v)
         IN  IF IsOk(r) THEN Some(r.v) ELSE None

\* A mutation of ExtractRateLimits: the rate limits are read only inside the
\* branch that found a usage object.
ExtractRateLimits_NeedsUsage(payload) ==
    IF ~IsSome(ExtractUsage(payload)) THEN None
    ELSE IF ~IsSome(Get(payload.v, "rate_limits")) THEN None
    ELSE LET r == FromValueRateLimitSnapshot(Get(payload.v, "rate_limits").v)
         IN  IF IsOk(r) THEN Some(r.v) ELSE None

\* payload.rate_limits, deserialized.
ExtractRateLimits(payload) ==
    IF ~IsSome(payload) THEN None
    ELSE IF ~IsSome(Get(payload.v, "rate_limits")) THEN None
    ELSE LET r == FromValueRateLimitSnapshot(Get(payload.v, "rate_limits").v)
         IN  IF IsOk(r) THEN Some(r.v) ELSE None

\* The body of the loop up to the two assignments: what each line of the
\* alphabet yields, the usage and the rate limits each on its own.
LineYield ==
    [l \in Lines |->
        [usage |-> ExtractUsage(TokenCountPayload(l)),
         limits |-> ExtractRateLimits(TokenCountPayload(l))]]

\* A mutation of FoldUsage: the first usage found is kept.
FoldUsage_FirstWins(acc, ex) ==
    IF IsSome(ex) /\ ~acc.found_usage
    THEN [total_usage |-> ex.v, found_usage |-> TRUE]
    ELSE acc

\* total_usage = usage; found_usage = true;
FoldUsage(acc, ex) ==
    IF IsSome(ex) THEN [total_usage |-> ex.v, found_usage |-> TRUE] ELSE acc

\* A mutation of FoldRateLimits: every token_count line overwrites the fold.
FoldRateLimits_Overwrite(prev, ex) == ex

\* rate_limits = Some(limits);
FoldRateLimits(prev, ex) == IF IsSome(ex) THEN ex ELSE prev

\* SessionData { token_usage, rate_limits }
SessionData(found, usage, limits) ==
    [token_usage |-> IF found THEN Some(usage) ELSE None, rate_limits |-> limits]

(***************************************************************************)
(* State of one invocation of run_status.                                  *)
(***************************************************************************)
VARIABLES
    pc,               \* position in run_status / extract_session_data
    disk,             \* the lines of the most recent session's log file
    auth_info,        \* Option<CodexAuth> read from the auth storage
    session_id,       \* Option<String>: the session found by the first list_threads
    fetch_outcome,    \* what the live fetch did: "none", "skipped", a failure, "ok"
    rate_limits,      \* Option<RateLimitSnapshot>: the result of the live path
    thread,           \* the thread the fallback's list_threads returned
    pos,              \* lines of disk consumed by the scan
    total_usage,      \* extract_session_data: total_usage
    found_usage,      \* extract_session_data: found_usage
    scan_rate_limits, \* extract_session_data: rate_limits
    data,             \* None, or the io::Result<SessionData> of the scan
    io_failure,       \* "none", "open" or "read": the log read failure
    out,              \* rows printed after the static configuration rows
    exit_code,        \* Option: the code passed to std::process::exit
    fetches,          \* number of live requests started
    opens,            \* number of File::open calls on a session log
    model_provider,   \* Option<String>: format_model_provider(&config)
    r_fn,             \* the formatting function applied: "none", "bar", "label", "reset"
    r_in,             \* its arguments
    r_out,            \* None, or what it returned
    h_pc,             \* position in TranscribeMediaHandler::handle
    h_call,           \* the ToolInvocation: payload and arguments
    h_file,           \* None, or the metadata and content found at the path
    h_token,          \* None, or the bearer token of the auth provider
    h_sent,           \* the HTTP requests sent, in order
    h_resp,           \* None, or the response: status and body
    h_result,         \* None, or the Result<ToolOutput, FunctionCallError> returned
    w_pending,        \* None, or the record the log's writer has flushed a part of
    w_flushed         \* the complete records flushed to the log, in order

statusVars ==
    << pc, disk, auth_info, session_id, fetch_outcome, rate_limits, thread, pos,
       total_usage, found_usage, scan_rate_limits, data, io_failure, out,
       exit_code, fetches, opens, model_provider >>

statusVarsExceptDisk ==
    << pc, auth_info, session_id, fetch_outcome, rate_limits, thread, pos,
       total_usage, found_usage, scan_rate_limits, data, io_failure, out,
       exit_code, fetches, opens, model_provider >>
renderVars == << r_fn, r_in, r_out >>

handlerVars == << h_pc, h_call, h_file, h_token, h_sent, h_resp, h_result >>

writerVars == << w_pending, w_flushed >>
vars == << statusVars, renderVars, handlerVars, writerVars >>

\* No formatting function is being applied on its own.
RenderIdle == r_fn = "none" /\ r_in = None /\ r_out = None

\* No tool call is being handled.
HandlerIdle ==
    /\ h_pc = "idle"
    /\ h_call = None
    /\ h_file = None
    /\ h_token = None
    /\ h_sent = << >>
    /\ h_resp = None
    /\ h_result = None

\* format_model_provider: None for the default OpenAI provider, else its name.
\* Nobody is writing to the log: it holds complete records only.
WriterIdle == w_pending = None /\ w_flushed = disk

ModelProviders == {None, Some("ollama")}

Sessions == {"s1", "s2"}

\* Result<ThreadsPage> of RolloutRecorder::list_threads with page size 1.
ListThreadsResults == {Err("io"), Ok(<< >>)} \cup {Ok(<< s >>) : s \in Sessions}

\* The snapshots the live endpoint answers with.
SnapTest == FromValueRateLimitSnapshot(RLJsonTest).v
SnapPrimary == FromValueRateLimitSnapshot(RLJsonPrimary).v
SnapCredits ==
    [primary |-> None, secondary |-> None,
     credits |-> Some([has_credits |-> TRUE, unlimited |-> FALSE, balance |-> Some("12")])]
SnapEmpty == [primary |-> None, secondary |-> None, credits |-> None]
\* A secondary window alone, without window_minutes, and unlimited credits.
SnapSecondary ==
    [primary |-> None,
     secondary |-> Some([used_percent |-> 80, window_minutes |-> None, resets_at |-> None]),
     credits |-> Some([has_credits |-> TRUE, unlimited |-> TRUE, balance |-> None])]
LiveSnapshots == {SnapTest, SnapPrimary, SnapSecondary, SnapCredits, SnapEmpty}

\* Outcomes of the live path: BackendClient::from_auth, then get_rate_limits.
FetchOutcomes ==
    {[client |-> Err("client_err"), response |-> Err("unsent")]}
    \cup {[client |-> Ok("client"), response |-> Err(e)] :
            e \in {"network_err", "bad_status", "decode_err"}}
    \cup {[client |-> Ok("client"), response |-> Ok(s)] : s \in LiveSnapshots}

\* fetch_rate_limits_from_api: from_auth(..).ok()?, then get_rate_limits().await.ok()
fetch_rate_limits_from_api(o) ==
    IF IsErr(o.client) THEN None
    ELSE IF IsOk(o.response) THEN Some(o.response.v) ELSE None

OutcomeName(o) ==
    IF IsErr(o.client) THEN o.client.e
    ELSE IF IsErr(o.response) THEN o.response.e ELSE "ok"

InitCommon ==
    /\ auth_info = None
    /\ session_id = None
    /\ fetch_outcome = "none"
    /\ rate_limits = None
    /\ thread = None
    /\ pos = 0
    /\ total_usage = TokenUsageDefault
    /\ found_usage = FALSE
    /\ scan_rate_limits = None
    /\ data = None
    /\ io_failure = "none"
    /\ out = << >>
    /\ exit_code = None
    /\ fetches = 0
    /\ opens = 0

\* After load_config_or_exit returned a configuration.
Init ==
    /\ pc = "auth"
    /\ disk \in LogsUpTo(StatusLines, MaxStatusLogLen)
    /\ model_provider \in ModelProviders
    /\ InitCommon
    /\ RenderIdle
    /\ HandlerIdle
    /\ WriterIdle

\* CodexAuth::from_auth_storage(..).ok().flatten()
CheckAuth ==
    /\ pc = "auth"
    /\ \E a \in {None, Some("auth")} : auth_info' = a
    /\ pc' = "list_threads"
    /\ UNCHANGED << model_provider, renderVars, handlerVars, writerVars, disk, session_id,
                    fetch_outcome, rate_limits, thread, pos, total_usage,
                    found_usage, scan_rate_limits, data, io_failure, out,
                    exit_code, fetches, opens >>

\* A mutation of ListThreads: a Session row is printed also when none is found.
ListThreads_AlwaysRow ==
    /\ pc = "list_threads"
    /\ \E page \in ListThreadsResults :
         IF IsOk(page) /\ Len(page.v) > 0
         THEN /\ session_id' = Some(page.v[1])
              /\ out' = Append(out, Field("Session", page.v[1]))
         ELSE /\ session_id' = None
              /\ out' = Append(out, Field("Session", "<none>"))
    /\ pc' = "fetch"
    /\ UNCHANGED << model_provider, renderVars, handlerVars, writerVars, disk, auth_info,
                    fetch_outcome, rate_limits, thread, pos, total_usage,
                    found_usage, scan_rate_limits, data, io_failure, exit_code,
                    fetches, opens >>

\* The first list_threads: the Session row and session_id.
ListThreads ==
    /\ pc = "list_threads"
    /\ \E page \in ListThreadsResults :
         IF IsOk(page) /\ Len(page.v) > 0
         THEN /\ session_id' = Some(page.v[1])
              /\ out' = Append(out, Field("Session", page.v[1]))
         ELSE /\ session_id' = None
              /\ out' = out
    /\ pc' = "fetch"
    /\ UNCHANGED << model_provider, renderVars, handlerVars, writerVars, disk, auth_info,
                    fetch_outcome, rate_limits, thread, pos, total_usage,
                    found_usage, scan_rate_limits, data, io_failure, exit_code,
                    fetches, opens >>

\* A mutation of FetchRateLimits: the live path is taken only with a session.
FetchRateLimits_NeedsSession ==
    /\ pc = "fetch"
    /\ IF IsSome(auth_info) /\ IsSome(session_id)
       THEN \E o \in FetchOutcomes :
              /\ rate_limits' = fetch_rate_limits_from_api(o)
              /\ fetch_outcome' = OutcomeName(o)
              /\ fetches' = IF IsOk(o.client) THEN fetches + 1 ELSE fetches
       ELSE /\ rate_limits' = None
            /\ fetch_outcome' = "skipped"
            /\ fetches' = fetches
    /\ pc' = "display"
    /\ UNCHANGED << model_provider, renderVars, handlerVars, writerVars, disk, auth_info,
                    session_id, thread, pos, total_usage, found_usage,
                    scan_rate_limits, data, io_failure, out, exit_code, opens >>

\* let rate_limits = if let Some(auth) = &auth_info { fetch(..).await } else { None }
FetchRateLimits ==
    /\ pc = "fetch"
    /\ IF IsSome(auth_info)
       THEN \E o \in FetchOutcomes :
              /\ rate_limits' = fetch_rate_limits_from_api(o)
              /\ fetch_outcome' = OutcomeName(o)
              /\ fetches' = IF IsOk(o.client) THEN fetches + 1 ELSE fetches
       ELSE /\ rate_limits' = None
            /\ fetch_outcome' = "skipped"
            /\ fetches' = fetches
    /\ pc' = "display"
    /\ UNCHANGED << model_provider, renderVars, handlerVars, writerVars, disk, auth_info,
                    session_id, thread, pos, total_usage, found_usage,
                    scan_rate_limits, data, io_failure, out, exit_code, opens >>

\* A mutation of Display: the session log is preferred to the live snapshot.
Display_PreferLog ==
    /\ pc = "display"
    /\ IF IsSome(session_id)
       THEN pc' = "relist" /\ out' = out
       ELSE IF IsSome(rate_limits)
            THEN pc' = "exit" /\ out' = out \o display_rate_limits(rate_limits.v)
            ELSE pc' = "exit" /\ out' = out \o NotAvailable
    /\ UNCHANGED << model_provider, renderVars, handlerVars, writerVars, disk, auth_info,
                    session_id, fetch_outcome, rate_limits, thread, pos,
                    total_usage, found_usage, scan_rate_limits, data, io_failure,
                    exit_code, fetches, opens >>

\* if let Some(limits) = rate_limits { display } else if session { fall back } else { message }
Display ==
    /\ pc = "display"
    /\ IF IsSome(rate_limits)
       THEN pc' = "exit" /\ out' = out \o display_rate_limits(rate_limits.v)
       ELSE IF IsSome(session_id)
            THEN pc' = "relist" /\ out' = out
            ELSE pc' = "exit" /\ out' = out \o NotAvailable
    /\ UNCHANGED << model_provider, renderVars, handlerVars, writerVars, disk, auth_info,
                    session_id, fetch_outcome, rate_limits, thread, pos,
                    total_usage, found_usage, scan_rate_limits, data, io_failure,
                    exit_code, fetches, opens >>

\* The fallback's own list_threads and page.items.first().
RelistThreads ==
    /\ pc = "relist"
    /\ \E page \in ListThreadsResults :
         IF IsOk(page) /\ Len(page.v) > 0
         THEN /\ thread' = Some(page.v[1])
              /\ pc' = "open"
              /\ out' = out
         ELSE /\ thread' = None
              /\ pc' = "exit"
              /\ out' = out \o NotAvailable
    /\ UNCHANGED << model_provider, renderVars, handlerVars, writerVars, disk, auth_info,
                    session_id, fetch_outcome, rate_limits, pos, total_usage,
                    found_usage, scan_rate_limits, data, io_failure, exit_code,
                    fetches, opens >>

\* extract_session_data: File::open(session_path).await? and the locals.
OpenLog ==
    /\ pc = "open"
    /\ opens' = opens + 1
    /\ \E opened \in BOOLEAN :
         IF opened
         THEN /\ pc' = "scan"
              /\ data' = data
              /\ io_failure' = io_failure
         ELSE /\ pc' = "scanned"
              /\ data' = Some(Err("open"))
              /\ io_failure' = "open"
    /\ pos' = 0
    /\ total_usage' = TokenUsageDefault
    /\ found_usage' = FALSE
    /\ scan_rate_limits' = None
    /\ UNCHANGED << model_provider, renderVars, handlerVars, writerVars, disk, auth_info,
                    session_id, fetch_outcome, rate_limits, thread, out,
                    exit_code, fetches >>

\* A mutation of NextLine: a read failure ends the scan with what was folded.
NextLine_PartialOnError ==
    /\ pc = "scan"
    /\ \E failed \in BOOLEAN :
         IF failed \/ pos = Len(disk) \/ ~disk[pos + 1].utf8
         THEN /\ pc' = "scanned"
              /\ data' = Some(Ok(SessionData(found_usage, total_usage, scan_rate_limits)))
              /\ io_failure' = IF failed THEN "read" ELSE io_failure
              /\ UNCHANGED << pos, total_usage, found_usage, scan_rate_limits >>
         ELSE LET yield == LineYield[disk[pos + 1]]
                  acc == FoldUsage([total_usage |-> total_usage,
                                    found_usage |-> found_usage],
                                   yield.usage)
              IN  /\ total_usage' = acc.total_usage
                  /\ found_usage' = acc.found_usage
                  /\ scan_rate_limits' = FoldRateLimits(scan_rate_limits, yield.limits)
                  /\ pos' = pos + 1
                  /\ UNCHANGED << pc, data, io_failure >>
    /\ UNCHANGED << model_provider, renderVars, handlerVars, writerVars, disk, auth_info,
                    session_id, fetch_outcome, rate_limits, thread, out,
                    exit_code, fetches, opens >>

\* One turn of `while let Some(line) = lines.next_line().await?`: a read error
\* or a line that is not UTF-8 returns Err, end of file returns Ok(SessionData),
\* any other line is parsed and folded.
NextLine ==
    /\ pc = "scan"
    /\ \E failed \in BOOLEAN :
         IF failed
         THEN /\ pc' = "scanned"
              /\ data' = Some(Err("io"))
              /\ io_failure' = "read"
              /\ UNCHANGED << pos, total_usage, found_usage, scan_rate_limits >>
         ELSE IF pos = Len(disk)
         THEN /\ pc' = "scanned"
              /\ data' = Some(Ok(SessionData(found_usage, total_usage, scan_rate_limits)))
              /\ UNCHANGED << pos, total_usage, found_usage, scan_rate_limits,
                              io_failure >>
         ELSE IF ~disk[pos + 1].utf8
         THEN /\ pc' = "scanned"
              /\ data' = Some(Err("invalid_data"))
              /\ UNCHANGED << pos, total_usage, found_usage, scan_rate_limits,
                              io_failure >>
         ELSE LET yield == LineYield[disk[pos + 1]]
                  acc == FoldUsage([total_usage |-> total_usage,
                                    found_usage |-> found_usage],
                                   yield.usage)
              IN  /\ total_usage' = acc.total_usage
                  /\ found_usage' = acc.found_usage
                  /\ scan_rate_limits' = FoldRateLimits(scan_rate_limits, yield.limits)
                  /\ pos' = pos + 1
                  /\ UNCHANGED << pc, data, io_failure >>
    /\ UNCHANGED << model_provider, renderVars, handlerVars, writerVars, disk, auth_info,
                    session_id, fetch_outcome, rate_limits, thread, out,
                    exit_code, fetches, opens >>

\* A mutation of FinishFallback: a scan that failed is tried a second time.
FinishFallback_Retry ==
    /\ pc = "scanned"
    /\ IF IsErr(data.v) /\ opens < 2
       THEN pc' = "open" /\ out' = out
       ELSE /\ out' = out \o (IF IsOk(data.v) /\ IsSome(data.v.v.rate_limits)
                              THEN display_rate_limits(data.v.v.rate_limits.v)
                              ELSE NotAvailable)
            /\ pc' = "exit"
    /\ UNCHANGED << model_provider, renderVars, handlerVars, writerVars, disk, auth_info,
                    session_id, fetch_outcome, rate_limits, thread, pos,
                    total_usage, found_usage, scan_rate_limits, data, io_failure,
                    exit_code, fetches, opens >>

\* A mutation of FinishFallback: the message is printed whatever the scan found.
FinishFallback_AlwaysMessage ==
    /\ pc = "scanned"
    /\ out' = out \o NotAvailable
    /\ pc' = "exit"
    /\ UNCHANGED << model_provider, renderVars, handlerVars, writerVars, disk, auth_info,
                    session_id, fetch_outcome, rate_limits, thread, pos,
                    total_usage, found_usage, scan_rate_limits, data, io_failure,
                    exit_code, fetches, opens >>

\* A mutation of FinishFallback: a failed scan ends the process with code 1.
FinishFallback_Propagate ==
    /\ pc = "scanned"
    /\ IF IsOk(data.v)
       THEN /\ out' = out \o (IF IsSome(data.v.v.rate_limits)
                              THEN display_rate_limits(data.v.v.rate_limits.v)
                              ELSE NotAvailable)
            /\ pc' = "exit"
            /\ exit_code' = exit_code
       ELSE /\ out' = out
            /\ pc' = "exited"
            /\ exit_code' = Some(1)
    /\ UNCHANGED << model_provider, renderVars, handlerVars, writerVars, disk, auth_info,
                    session_id, fetch_outcome, rate_limits, thread, pos,
                    total_usage, found_usage, scan_rate_limits, data, io_failure,
                    fetches, opens >>

\* if let Ok(data) = extract_session_data(..) { if let Some(limits) = data.rate_limits ..
FinishFallback ==
    /\ pc = "scanned"
    /\ out' = out \o (IF IsOk(data.v) /\ IsSome(data.v.v.rate_limits)
                      THEN display_rate_limits(data.v.v.rate_limits.v)
                      ELSE NotAvailable)
    /\ pc' = "exit"
    /\ UNCHANGED << model_provider, renderVars, handlerVars, writerVars, disk, auth_info,
                    session_id, fetch_outcome, rate_limits, thread, pos,
                    total_usage, found_usage, scan_rate_limits, data, io_failure,
                    exit_code, fetches, opens >>

\* std::process::exit(0)
Exit ==
    /\ pc = "exit"
    /\ exit_code' = Some(0)
    /\ pc' = "exited"
    /\ UNCHANGED << model_provider, renderVars, handlerVars, writerVars, disk, auth_info,
                    session_id, fetch_outcome, rate_limits, thread, pos,
                    total_usage, found_usage, scan_rate_limits, data, io_failure,
                    out, fetches, opens >>

Next ==
    \/ CheckAuth
    \/ ListThreads
    \/ FetchRateLimits
    \/ Display
    \/ RelistThreads
    \/ OpenLog
    \/ NextLine
    \/ FinishFallback
    \/ Exit

Spec == Init /\ [][Next]_vars

\* The single task is driven to completion: every await returns.
FairSpec == Spec /\ WF_vars(Next)

(***************************************************************************)
(* extract_session_data alone, on every log up to MaxLogLen lines: the     *)
(* state is the one run_status calls it in (no live snapshot, a session).  *)
(***************************************************************************)
ScanInit ==
    /\ pc = "open"
    /\ disk \in LogsUpTo(Lines, MaxLogLen)
    /\ auth_info = None
    /\ session_id = Some("s1")
    /\ fetch_outcome = "skipped"
    /\ rate_limits = None
    /\ thread = Some("s1")
    /\ pos = 0
    /\ total_usage = TokenUsageDefault
    /\ found_usage = FALSE
    /\ scan_rate_limits = None
    /\ data = None
    /\ io_failure = "none"
    /\ out = << Field("Session", "s1") >>
    /\ exit_code = None
    /\ fetches = 0
    /\ opens = 0
    /\ model_provider = None
    /\ RenderIdle
    /\ HandlerIdle
    /\ WriterIdle

ScanNext == OpenLog \/ NextLine

ScanSpec == ScanInit /\ [][ScanNext]_vars

(***************************************************************************)
(* What the properties are stated with: the log read from its end, and a   *)
(* table of what each line of the alphabet carries.                        *)
(***************************************************************************)
QuotaRows(o) == SelectSeq(o, LAMBDA r : r.label # "Session")

MessageRow(label) == [kind |-> "field", label |-> label, value |-> "data not available yet"]

UsageOf(total) ==
    [input_tokens |-> total - 40, cached_input_tokens |-> 0, output_tokens |-> 40,
     reasoning_output_tokens |-> 0, total_tokens |-> total]

BothWindows ==
    [primary |-> Some([used_percent |-> 1, window_minutes |-> Some(300),
                       resets_at |-> Some(1736789074)]),
     secondary |-> Some([used_percent |-> 5, window_minutes |-> Some(10080),
                         resets_at |-> Some(1737393874)]),
     credits |-> None]

PrimaryOnly ==
    [primary |-> Some([used_percent |-> 50, window_minutes |-> None, resets_at |-> None]),
     secondary |-> None, credits |-> None]

\* The usage a line of the alphabet carries, by the line's description.
UsageOfLine(l) ==
    CASE l = L_Usage1 -> Some(UsageOf(1000))
      [] l = L_Usage2BadRL -> Some(UsageOf(2000))
      [] l = L_Both -> Some(UsageOf(100))
      [] OTHER -> None

\* The rate limits a line of the alphabet carries, by the line's description.
RateLimitsOfLine(l) ==
    CASE l = L_RLOnly -> Some(PrimaryOnly)
      [] l = L_Both -> Some(BothWindows)
      [] l = L_BadUsageGoodRL -> Some(BothWindows)
      [] OTHER -> None

TokenCountLines ==
    {L_Usage1, L_Usage2BadRL, L_RLOnly, L_Both, L_Neither, L_BadUsageGoodRL}

MalformedLines == {L_BadJson, L_Scalar, L_BadUtf8}

MaxOf(S) == CHOOSE x \in S : \A y \in S : y <= x

\* What the last line of log that carries something (by Of) carries.
LastUsage(log) ==
    LET idx == {i \in 1..Len(log) : IsSome(UsageOfLine(log[i]))}
    IN  IF idx = {} THEN None ELSE UsageOfLine(log[MaxOf(idx)])

LastRateLimits(log) ==
    LET idx == {i \in 1..Len(log) : IsSome(RateLimitsOfLine(log[i]))}
    IN  IF idx = {} THEN None ELSE RateLimitsOfLine(log[MaxOf(idx)])

Prefix(log, n) == SubSeq(log, 1, n)

ScanOk == pc = "scanned" /\ data # None /\ IsOk(data.v)

Finished == pc \in {"exit", "exited"}

(***************************************************************************)
(* run_status: live snapshot, fallback, message.                           *)
(***************************************************************************)
\* C1: whenever the live fetch succeeded, the session log is never opened or
\* scanned in that invocation and the quota rows printed are exactly the rows
\* of the live snapshot, whatever the session's log holds.
C1_LiveWins ==
    IsSome(rate_limits) =>
        /\ fetch_outcome = "ok"
        /\ opens = 0
        /\ data = None
        /\ pc \in {"display", "exit", "exited"}
        /\ (Finished => QuotaRows(out) = display_rate_limits(rate_limits.v))

\* C1 witness: the run ended on a live snapshot while the log of the session
\* found holds another one.
C1_Witness ==
    /\ pc = "exited"
    /\ fetch_outcome = "ok"
    /\ rate_limits = Some(PrimaryOnly)
    /\ IsSome(session_id)
    /\ LastRateLimits(disk) = Some(BothWindows)
    /\ opens = 0

NoSnapshot ==
    /\ ~IsSome(rate_limits)
    /\ (data = None \/ IsErr(data.v) \/ ~IsSome(data.v.v.rate_limits))

\* C3 as stated: with no snapshot from either source, one "data not available
\* yet" row is printed per quota window (5h and Weekly), and no bar.
C3_Original ==
    (pc = "exited" /\ NoSnapshot) =>
        QuotaRows(out) = << MessageRow("5h limit"), MessageRow("Weekly limit") >>

\* C3 amended: with no snapshot from either source, exactly one "data not
\* available yet" row is printed, labelled "5h limit"; no row is printed for
\* the weekly window, and no bar or percentage.
C3_OneMessage ==
    (pc = "exited" /\ NoSnapshot) => QuotaRows(out) = << MessageRow("5h limit") >>

\* C3 witness: the request was refused and the log scanned holds no rate limits.
C3_Witness ==
    /\ pc = "exited"
    /\ NoSnapshot
    /\ fetch_outcome = "bad_status"
    /\ data # None /\ IsOk(data.v)
    /\ Len(disk) > 0

\* Steps run_status still has to take at most: its position, then the lines
\* the scan has not read.
PcRank ==
    CASE pc = "auth" -> 9 [] pc = "list_threads" -> 8 [] pc = "fetch" -> 7
      [] pc = "display" -> 6 [] pc = "relist" -> 5 [] pc = "open" -> 4
      [] pc = "scan" -> 3 [] pc = "scanned" -> 2 [] pc = "exit" -> 1
      [] OTHER -> 0

Remaining == PcRank * (Len(disk) + 1) + (Len(disk) - pos)

\* The quota output was made: the message row, or the rows of a snapshot.
Reported ==
    \/ QuotaRows(out) = << MessageRow("5h limit") >>
    \/ IsSome(rate_limits) /\ QuotaRows(out) = display_rate_limits(rate_limits.v)
    \/ /\ data # None /\ IsOk(data.v) /\ IsSome(data.v.v.rate_limits)
       /\ QuotaRows(out) = display_rate_limits(data.v.v.rate_limits.v)

\* C4: every run of run_status ends in process exit with code 0 and the quota
\* output made, whatever the collaborators answered: the exit code is never
\* anything but 0, a run that has not exited can always take a step, and every
\* step brings the exit nearer (so no run goes on for ever).
C4_AlwaysExitsZero ==
    /\ [](exit_code \in {None, Some(0)})
    /\ [](pc = "exited" => exit_code = Some(0) /\ Reported)
    /\ [](pc # "exited" => ENABLED Next)
    /\ [][Remaining' < Remaining]_vars

\* C4 witness: the run ended although the live request failed to decode and
\* the log read failed in the middle of the scan.
C4_Witness ==
    /\ pc = "exited"
    /\ exit_code = Some(0)
    /\ fetch_outcome = "decode_err"
    /\ io_failure = "read"
    /\ pos > 0

(***************************************************************************)
(* extract_session_data.                                                   *)
(***************************************************************************)
\* C5: the usage a successful scan returns is the usage of the last line of
\* the log that carries a deserializable total_token_usage.
C5_UsageLastWins == ScanOk => data.v.v.token_usage = LastUsage(disk)

\* C5 witness: totals 1000, 2000, then a non-matching line give 2000.
C5_Witness ==
    /\ ScanOk
    /\ disk = << L_Usage1, L_Usage2BadRL, L_OtherEvent >>
    /\ data.v.v.token_usage.v.total_tokens = 2000

\* C6: the rate limits are folded last-wins on their own: after each line the
\* folded rate limits are those of the last line so far that carries them and
\* the folded usage is that of the last line so far that carries usage, and a
\* successful scan returns the rate limits of the last such line of the log.
C6_RateLimitsLastWins ==
    /\ pc = "scan" =>
          /\ scan_rate_limits = LastRateLimits(Prefix(disk, pos))
          /\ SessionData(found_usage, total_usage, None).token_usage
                = LastUsage(Prefix(disk, pos))
    /\ ScanOk => data.v.v.rate_limits = LastRateLimits(disk)

\* C6 witness: a line with both windows, followed by a usage-only line: both
\* windows are in the result, next to the later line's usage.
C6_Witness ==
    /\ ScanOk
    /\ disk = << L_RLOnly, L_Both, L_Usage1 >>
    /\ IsSome(data.v.v.rate_limits.v.primary)
    /\ IsSome(data.v.v.rate_limits.v.secondary)
    /\ data.v.v.token_usage = Some(UsageOf(1000))

\* C7 as stated: a malformed line (not JSON, not an object, not decodable as
\* text) never aborts the scan: unless the device fails, the scan returns Ok
\* with the result of the log without its malformed lines.
C7_MalformedNeverAborts ==
    (pc = "scanned" /\ io_failure = "none") =>
        LET clean == SelectSeq(disk, LAMBDA l : l \notin MalformedLines)
        IN  /\ IsOk(data.v)
            /\ data.v.v.token_usage = LastUsage(clean)
            /\ data.v.v.rate_limits = LastRateLimits(clean)

\* C8: within one line the two extractions are independent: the step over a
\* line sets the folded usage exactly when the line carries usage and the
\* folded rate limits exactly when it carries rate limits, and leaves the
\* other fold as it was.
C8_Independent ==
    [][(pc = "scan" /\ pc' = "scan") =>
          LET l == disk[pos + 1]
          IN  /\ IF IsSome(UsageOfLine(l))
                 THEN found_usage' /\ total_usage' = UsageOfLine(l).v
                 ELSE UNCHANGED << found_usage, total_usage >>
              /\ IF IsSome(RateLimitsOfLine(l))
                 THEN scan_rate_limits' = RateLimitsOfLine(l)
                 ELSE UNCHANGED scan_rate_limits]_vars

\* C8 witness: a line whose usage does not deserialize had its rate limits
\* folded and left the usage folded before it in place.
C8_Witness ==
    /\ pc = "scan"
    /\ pos = 2
    /\ disk[1] = L_Usage1
    /\ disk[2] = L_BadUsageGoodRL
    /\ found_usage
    /\ total_usage = UsageOf(1000)
    /\ scan_rate_limits = Some(BothWindows)

\* C9 as stated: a log without any event_msg / token_count line scans to Ok
\* with no usage and no rate limits, unless the device fails.
C9_NoTokenCountIsNone ==
    (pc = "scanned" /\ io_failure = "none"
       /\ \A i \in 1..Len(disk) : disk[i] \notin TokenCountLines) =>
        data = Some(Ok([token_usage |-> None, rate_limits |-> None]))

(***************************************************************************)
(* run_status: a log that cannot be read.                                  *)
(***************************************************************************)
\* C10: a failure to open or to read the log makes the scan return Err, and
\* run_status then prints the message row alone (nothing of what had been
\* folded) and exits with code 0.
C10_ReadFailureDegrades ==
    io_failure # "none" =>
        /\ pc \in {"scanned", "exit", "exited"}
        /\ data # None
        /\ IsErr(data.v)
        /\ (Finished => QuotaRows(out) = << MessageRow("5h limit") >>)
        /\ exit_code \in {None, Some(0)}
        /\ (pc = "exited" => exit_code = Some(0))

\* C10 witness: the read failed after a line with rate limits had been folded.
C10_Witness ==
    /\ pc = "exited"
    /\ io_failure = "read"
    /\ pos > 0
    /\ IsSome(scan_rate_limits)

(***************************************************************************)
(* run_status: how often and in which order the collaborators are used.    *)
(***************************************************************************)
FetchFailures == {"client_err", "network_err", "bad_status", "decode_err"}

\* fetch_rate_limits_from_api was called.
LivePathTaken == fetch_outcome \notin {"none", "skipped"}

\* C11: in one invocation at most one live request is made and the session log
\* is opened at most once; after a failed request or a failed read there is
\* still exactly that one attempt.
C11_AtMostOnce ==
    /\ fetches <= 1
    /\ opens <= 1
    /\ (fetch_outcome \in FetchFailures \ {"client_err"} => fetches = 1)
    /\ (io_failure # "none" => opens = 1)

\* C11 witness: the run ended after one failed request and one failed read.
C11_Witness ==
    /\ pc = "exited"
    /\ fetch_outcome = "network_err"
    /\ fetches = 1
    /\ io_failure = "read"
    /\ opens = 1

\* C12: the steps are in sequence: the live path is entered only once the
\* first list_threads has returned, and the log is listed, opened and scanned
\* only once the live path was skipped or has ended in failure, so a request
\* and a scan are never under way together.
C12_Sequenced ==
    /\ (pc \in {"auth", "list_threads", "fetch"} =>
            fetch_outcome = "none" /\ fetches = 0 /\ opens = 0)
    /\ (pc \in {"auth", "list_threads"} => session_id = None /\ out = << >>)
    /\ (pc \in {"relist", "open", "scan", "scanned"} \/ opens > 0 \/ data # None =>
            fetch_outcome \in FetchFailures \cup {"skipped"} /\ rate_limits = None)

\* C12 witness: the scan is under way after the request was refused.
C12_Witness ==
    /\ pc = "scan"
    /\ pos > 0
    /\ fetch_outcome = "bad_status"
    /\ fetches = 1

HasRow(o, label) == \E i \in 1..Len(o) : o[i].label = label

SaysNoSessions(o) ==
    \E i \in 1..Len(o) : o[i].kind = "field" /\ o[i].value = "no recent sessions"

\* C14 as stated: when discovery fails or finds nothing, the output reports
\* "no recent sessions", has no Session row, and the log is not looked at.
C14_Original ==
    (Finished /\ ~IsSome(session_id)) =>
        /\ SaysNoSessions(out)
        /\ ~HasRow(out, "Session")
        /\ opens = 0

\* C14 amended: when discovery fails or finds nothing, the Session row is
\* omitted and nothing is printed in its place (no "no recent sessions" text);
\* the fallback does not list, open or scan any log; the quota rows are those
\* of the live snapshot if there is one, else the one message row.
C14_SessionRowOmitted ==
    (PcRank <= 7 /\ ~IsSome(session_id)) =>
        /\ ~HasRow(out, "Session")
        /\ ~SaysNoSessions(out)
        /\ pc \notin {"relist", "open", "scan", "scanned"}
        /\ opens = 0 /\ thread = None /\ data = None
        /\ (Finished =>
              out = IF IsSome(rate_limits) THEN display_rate_limits(rate_limits.v)
                    ELSE << MessageRow("5h limit") >>)

\* C14 witness: nothing found, no credentials: the message row is all there is.
C14_Witness ==
    /\ pc = "exited"
    /\ ~IsSome(session_id)
    /\ ~IsSome(auth_info)
    /\ out = << MessageRow("5h limit") >>

(***************************************************************************)
(* run_status: the label column.                                           *)
(***************************************************************************)
\* The labels of the rows printed before the Session row: the five fixed rows
\* and, after Model, the provider row when format_model_provider gave one.
ConfigLabels(mp) ==
    << "Model" >> \o (IF IsSome(mp) THEN << "Model provider" >> ELSE << >>)
        \o << "Directory", "Approval", "Sandbox", "Agents.md" >>

\* A mutation of labels: the quota labels are left out of the width.
labels_NoQuota(mp) ==
    << "Model", "Directory", "Approval", "Sandbox", "Agents.md" >>
        \o (IF IsSome(mp) THEN << "Model provider" >> ELSE << >>)
        \o << "Session" >>

\* The labels vector from which run_status computes label_width.
labels(mp) ==
    << "Model", "Directory", "Approval", "Sandbox", "Agents.md" >>
        \o (IF IsSome(mp) THEN << "Model provider" >> ELSE << >>)
        \o << "Session", "5h limit", "Weekly limit" >>

\* labels.iter().map(|l| l.len()).max().unwrap_or(0)
MaxLen(ls) == MaxOf({0} \cup {Len(ls[i]) : i \in 1..Len(ls)})

label_width(mp) == MaxLen(labels(mp))

\* " {:width$}   {}" with width = label_width + 1 applied to "label:": the
\* column (from 0) at which the value starts; a longer label is not truncated.
ValueColumn(label, width) ==
    1 + (IF Len(label) + 1 > width + 1 THEN Len(label) + 1 ELSE width + 1) + 3

\* The labels of all rows printed so far, in order.
PrintedLabels == ConfigLabels(model_provider) \o [i \in 1..Len(out) |-> out[i].label]

\* C16 as stated: the label width is the maximum length among the labels of
\* the rows actually printed.
C16_Original ==
    Finished => label_width(model_provider) = MaxLen(PrintedLabels)

\* C16 amended: the label width is the maximum length among the five fixed
\* labels, "Model provider" when that row is printed, and "Session", "5h limit"
\* and "Weekly limit" whether or not such rows are printed (14 with a provider
\* row, 12 without); it is at least the length of every printed label, so every
\* value starts at the same column, width + 5.
C16_WidthCoversPrinted ==
    LET w == label_width(model_provider)
    IN  /\ w = (IF IsSome(model_provider) THEN 14 ELSE 12)
        /\ w >= MaxLen(PrintedLabels)
        /\ \A i \in 1..Len(PrintedLabels) : ValueColumn(PrintedLabels[i], w) = w + 5

\* C16 witness: no provider row, no Session row, only the message row: the
\* longest printed label has 9 characters and the width is 12.
C16_Witness ==
    /\ pc = "exited"
    /\ model_provider = None
    /\ ~HasRow(out, "Session")
    /\ out = << MessageRow("5h limit") >>
    /\ MaxLen(PrintedLabels) = 9
    /\ label_width(model_provider) = 12

(***************************************************************************)
(* The formatting functions, applied to arguments of their own.            *)
(***************************************************************************)
UsedMargin == 30

\* used_percent values, in range and on both sides out of range.
UsedPercents == (0 - UsedMargin)..(100 + UsedMargin)

\* window_minutes values around each tier boundary.
WindowMinutes ==
    {0 - 5, 0, 1, 30, 59, 60, 61, 119, 120, 300, 1439, 1440, 1441, 2879, 2880,
     10079, 10080, 10081, 20000}

\* The local time zone as localtime_r sees it: seconds east of UTC, with a
\* daylight-saving period [from, to).
ZoneUTC == [std |-> 0, dst |-> 0, from |-> 0, to |-> 0]
ZoneTokyo == [std |-> 32400, dst |-> 32400, from |-> 0, to |-> 0]
ZoneNewYork == [std |-> 0 - 18000, dst |-> 0 - 14400, from |-> 1741503600, to |-> 1762063200]
Zones == {ZoneUTC, ZoneTokyo, ZoneNewYork}

\* SystemTime::now() as seconds: 2025-01-13 17:24:34 UTC, and 00:10:00 UTC of
\* the same day.
Nows == {1736789074, 1736727000}

\* unix_timestamp - now.
Deltas ==
    {0 - 31 * 86400, 0 - 86400, 0 - 3 * 3600, 0 - 3600, 0 - 60, 0, 60, 7200,
     86400, 7 * 86400, 31 * 86400, 90 * 86400, 365 * 86400}

GmtOff(zone, t) == IF zone.from <= t /\ t < zone.to THEN zone.dst ELSE zone.std

\* libc::localtime_r: the broken-down local time of a timestamp.
localtime_r(timestamp, zone) ==
    LET local == timestamp + GmtOff(zone, timestamp)
        days == local \div 86400
        secs == local % 86400
        z == days + 719468
        era == z \div 146097
        doe == z - era * 146097
        yoe == (doe - doe \div 1460 + doe \div 36524 - doe \div 146096) \div 365
        doy == doe - (365 * yoe + yoe \div 4 - yoe \div 100)
        mp == (5 * doy + 2) \div 153
        m == IF mp < 10 THEN mp + 3 ELSE mp - 9
        y == yoe + era * 400 + (IF m <= 2 THEN 1 ELSE 0)
    IN  [tm_year |-> y - 1900, tm_mon |-> m - 1,
         tm_mday |-> doy - (153 * mp + 2) \div 5 + 1,
         tm_hour |-> secs \div 3600, tm_min |-> (secs % 3600) \div 60]

\* match local_time.tm_mon { 0 => "Jan", ..., _ => "???" }
MonthName(tm_mon) ==
    IF tm_mon \in 0..11
    THEN << "Jan", "Feb", "Mar", "Apr", "May", "Jun", "Jul", "Aug", "Sep", "Oct",
            "Nov", "Dec" >>[tm_mon + 1]
    ELSE "???"

\* format!("{:02}", n) for n >= 0
Pad2(n) == IF n < 10 THEN "0" \o ToString(n) ELSE ToString(n)

\* A mutation of format_reset_time: a reset in the past is "recently".
format_reset_time_Recently(unix_timestamp, now, zone) ==
    LET local_time == localtime_r(unix_timestamp, zone)
        now_local == localtime_r(now, zone)
        clock == Pad2(local_time.tm_hour) \o ":" \o Pad2(local_time.tm_min)
    IN  IF unix_timestamp < now THEN "recently"
        ELSE IF /\ local_time.tm_year = now_local.tm_year
                /\ local_time.tm_mon = now_local.tm_mon
                /\ local_time.tm_mday = now_local.tm_mday
        THEN clock
        ELSE clock \o " on " \o ToString(local_time.tm_mday) \o " "
                 \o MonthName(local_time.tm_mon)

\* format_reset_time, with the clock reading and the zone made arguments.
format_reset_time(unix_timestamp, now, zone) ==
    LET local_time == localtime_r(unix_timestamp, zone)
        now_local == localtime_r(now, zone)
        clock == Pad2(local_time.tm_hour) \o ":" \o Pad2(local_time.tm_min)
    IN  IF /\ local_time.tm_year = now_local.tm_year
           /\ local_time.tm_mon = now_local.tm_mon
           /\ local_time.tm_mday = now_local.tm_mday
        THEN clock
        ELSE clock \o " on " \o ToString(local_time.tm_mday) \o " "
                 \o MonthName(local_time.tm_mon)

RenderInit ==
    /\ pc = "auth"
    /\ disk = << >>
    /\ model_provider = None
    /\ InitCommon
    /\ RenderIdle
    /\ HandlerIdle
    /\ WriterIdle

CallDisplayRateLimitBar ==
    /\ r_fn = "none"
    /\ \E u \in UsedPercents :
         /\ r_in' = Some([used_percent |-> u])
         /\ r_out' = Some(display_rate_limit_bar("5h limit", u, None))
    /\ r_fn' = "bar"
    /\ UNCHANGED << statusVars, handlerVars, writerVars >>

\* used_percent values in tenths, in range and on both sides out of range.
UsedTenths == (0 - 10 * UsedMargin)..(1000 + 10 * UsedMargin)

\* display_rate_limit_bar applied to a used_percent with a fractional part.
CallDisplayRateLimitBarTenths ==
    /\ r_fn = "none"
    /\ \E u \in UsedTenths :
         /\ r_in' = Some([used_x10 |-> u])
         /\ r_out' = Some(display_rate_limit_bar_tenths("5h limit", u, None))
    /\ r_fn' = "bar10"
    /\ UNCHANGED << statusVars, handlerVars, writerVars >>

CallFormatDurationLabel ==
    /\ r_fn = "none"
    /\ \E m \in WindowMinutes :
         /\ r_in' = Some([minutes |-> m])
         /\ r_out' = Some(format_duration_label(m))
    /\ r_fn' = "label"
    /\ UNCHANGED << statusVars, handlerVars, writerVars >>

\* Every CreditsSnapshot over one balance.
CreditsValues ==
    [has_credits : BOOLEAN, unlimited : BOOLEAN, balance : {None, Some("12")}]

\* The snapshots display_rate_limits is applied to: the live ones, and every
\* credits object alone and after the two windows.
RenderSnapshots ==
    LiveSnapshots
    \cup {[SnapEmpty EXCEPT !.credits = Some(c)] : c \in CreditsValues}
    \cup {[SnapTest EXCEPT !.credits = Some(c)] : c \in CreditsValues}

CallDisplayRateLimits ==
    /\ r_fn = "none"
    /\ \E limits \in RenderSnapshots :
         /\ r_in' = Some([limits |-> limits])
         /\ r_out' = Some(display_rate_limits(limits))
    /\ r_fn' = "rows"
    /\ UNCHANGED << statusVars, handlerVars, writerVars >>

CallFormatResetTime ==
    /\ r_fn = "none"
    /\ \E now \in Nows, d \in Deltas, zone \in Zones :
         /\ r_in' = Some([unix_timestamp |-> now + d, now |-> now, zone |-> zone])
         /\ r_out' = Some(format_reset_time(now + d, now, zone))
    /\ r_fn' = "reset"
    /\ UNCHANGED << statusVars, handlerVars, writerVars >>

\* The function returned; the next call may follow.
RenderReturn ==
    /\ r_fn # "none"
    /\ r_fn' = "none" /\ r_in' = None /\ r_out' = None
    /\ UNCHANGED << statusVars, handlerVars, writerVars >>

RenderNext ==
    \/ CallDisplayRateLimitBar
    \/ CallDisplayRateLimitBarTenths
    \/ CallFormatDurationLabel
    \/ CallDisplayRateLimits
    \/ CallFormatResetTime
    \/ RenderReturn

RenderSpec == RenderInit /\ [][RenderNext]_vars

\* C17: for used_percent in [0,100] the filled count is within [0, 20],
\* filled + empty = 20, and a greater percentage remaining never gives fewer
\* filled cells (all of it left fills 20, none of it 0); for any input the
\* empty count is max(0, 20 - filled), hence never negative: 0 when the filled
\* count exceeds 20, and 20 when used_percent is above 100 and nothing is
\* filled.
C17_BarWithinWidth ==
    r_fn = "bar" =>
        LET u == r_in.v.used_percent
            row == r_out.v
        IN  /\ row.empty = MaxOf({0, BAR_WIDTH - row.filled})
            /\ row.empty >= 0 /\ row.filled >= 0
            /\ (u \in 0..100 =>
                  /\ row.filled \in 0..BAR_WIDTH
                  /\ row.filled + row.empty = BAR_WIDTH
                  /\ \A v \in 0..100 :
                       v <= u => display_rate_limit_bar("5h limit", v, None).filled
                                    >= row.filled)
            /\ (u = 0 => row.filled = 20)
            /\ (u = 50 => row.filled = 10)
            /\ (u = 100 => row.filled = 0)
            /\ (row.filled > BAR_WIDTH => u < 0 /\ row.empty = 0)
            /\ (u > 100 => row.filled = 0 /\ row.empty = BAR_WIDTH)

\* C17 witness: minus 20 percent used would fill 24 cells, and no cell is empty.
C17_Witness ==
    /\ r_fn = "bar"
    /\ r_in.v.used_percent = 0 - 20
    /\ r_out.v.filled = 24
    /\ r_out.v.empty = 0

\* C18: format_duration_label gives "{m}m" below 60, "{m div 60}h" from 60 to
\* below 1440, "{m div 1440}d" from 1440 to below 10080 and "Weekly" from
\* 10080 on, and a snapshot with windows of 300 and 10080 minutes is rendered
\* with the row labels "5h limit" and "Weekly limit".
C18_DurationTiers ==
    /\ r_fn = "label" =>
         LET m == r_in.v.minutes
             l == r_out.v
         IN  /\ (m < 60 => l = ToString(m) \o "m")
             /\ (60 <= m /\ m < 1440 => l = ToString(m \div 60) \o "h")
             /\ (1440 <= m /\ m < 10080 => l = ToString(m \div 1440) \o "d")
             /\ (m >= 10080 => l = "Weekly")
             /\ (m = 30 => l = "30m")
             /\ (m = 59 => l = "59m")
             /\ (m = 60 => l = "1h")
             /\ (m = 119 => l = "1h")
             /\ (m = 300 => l = "5h")
             /\ (m = 1439 => l = "23h")
             /\ (m = 1440 => l = "1d")
             /\ (m = 2879 => l = "1d")
             /\ (m = 10079 => l = "6d")
             /\ (m = 10080 => l = "Weekly")
    /\ (r_fn = "rows" /\ r_in.v.limits = SnapTest) =>
         /\ Len(r_out.v) = 2
         /\ r_out.v[1].label = "5h limit"
         /\ r_out.v[2].label = "Weekly limit"

\* C18 witness: the snapshot of the test was rendered as two labelled rows.
C18_Witness ==
    /\ r_fn = "rows"
    /\ r_in.v.limits = SnapTest
    /\ SnapTest.primary.v.window_minutes = Some(300)
    /\ SnapTest.secondary.v.window_minutes = Some(10080)
    /\ r_out.v[1].label = "5h limit"
    /\ r_out.v[2].label = "Weekly limit"

\* The number of the local day a timestamp falls on.
LocalDay(t, zone) == (t + GmtOff(zone, t)) \div 86400

ClockOf(t, zone) ==
    LET secs == (t + GmtOff(zone, t)) % 86400
    IN  Pad2(secs \div 3600) \o ":" \o Pad2((secs % 3600) \div 60)

\* C19: format_reset_time renders a clock time for past and future resets
\* alike: "HH:MM" when the reset falls on the current local day and
\* "HH:MM on D Mon" otherwise, whichever of the two instants is the earlier.
C19_ClockOrDate ==
    r_fn = "reset" =>
        LET ts == r_in.v.unix_timestamp
            now == r_in.v.now
            zone == r_in.v.zone
            tm == localtime_r(ts, zone)
            text == r_out.v
        IN  /\ text # "recently"
            /\ (LocalDay(ts, zone) = LocalDay(now, zone) => text = ClockOf(ts, zone))
            /\ (LocalDay(ts, zone) # LocalDay(now, zone) =>
                  text = ClockOf(ts, zone) \o " on " \o ToString(tm.tm_mday) \o " "
                           \o MonthName(tm.tm_mon))
            /\ tm.tm_mon \in 0..11 /\ tm.tm_mday \in 1..31
            /\ (now = 1736789074 /\ zone = ZoneUTC =>
                  /\ (ts = now => text = "17:24")
                  /\ (ts = now - 3600 => text = "16:24")
                  /\ (ts = now + 7200 => text = "19:24")
                  /\ (ts = now - 86400 => text = "17:24 on 12 Jan")
                  /\ (ts = now + 86400 => text = "17:24 on 14 Jan")
                  /\ (ts = 1737393874 => text = "17:24 on 20 Jan")
                  /\ (ts = now - 31 * 86400 => text = "17:24 on 13 Dec")
                  /\ (ts = now + 31 * 86400 => text = "17:24 on 13 Feb")
                  /\ (ts = now + 365 * 86400 => text = "17:24 on 13 Jan"))
            /\ (now = 1736727000 /\ zone = ZoneUTC =>
                  /\ (ts = now - 3600 => text = "23:10 on 12 Jan")
                  /\ (ts = now + 7200 => text = "02:10"))
            /\ (now = 1736789074 /\ zone = ZoneTokyo =>
                  /\ (ts = now => text = "02:24")
                  /\ (ts = now - 3 * 3600 => text = "23:24 on 13 Jan"))
            /\ (now = 1736789074 /\ zone = ZoneNewYork =>
                  /\ (ts = now => text = "12:24")
                  /\ (ts = now + 90 * 86400 => text = "13:24 on 13 Apr"))

\* C19 witness: a reset one hour ago, before local midnight, is rendered with
\* its date.
C19_Witness ==
    /\ r_fn = "reset"
    /\ r_in.v.now = 1736727000
    /\ r_in.v.unix_timestamp = 1736727000 - 3600
    /\ r_in.v.zone = ZoneUTC
    /\ r_out = Some("23:10 on 12 Jan")

(***************************************************************************)
(* extract_session_data over a log that its writer is appending to.        *)
(***************************************************************************)
MaxAppendLen == 3

\* The records the writer appends: well-formed events.
AppendLines == {L_OtherEvent, L_Usage1, L_RLOnly, L_Both}

\* A part of a record read as a line of its own: text that is not JSON when
\* the cut is between characters, bytes that are not UTF-8 when it is inside
\* a character.
TornPiece(clean) == IF clean THEN L_BadJson ELSE L_BadUtf8

AppendInit ==
    /\ pc = "open"
    /\ disk \in LogsUpTo(AppendLines, 1)
    /\ auth_info = None
    /\ session_id = Some("s1")
    /\ fetch_outcome = "skipped"
    /\ rate_limits = None
    /\ thread = Some("s1")
    /\ pos = 0
    /\ total_usage = TokenUsageDefault
    /\ found_usage = FALSE
    /\ scan_rate_limits = None
    /\ data = None
    /\ io_failure = "none"
    /\ out = << Field("Session", "s1") >>
    /\ exit_code = None
    /\ fetches = 0
    /\ opens = 0
    /\ model_provider = None
    /\ RenderIdle
    /\ HandlerIdle
    /\ WriterIdle

\* The writer flushes one whole record with its newline.
WriterAppend ==
    /\ pc \in {"open", "scan"}
    /\ w_pending = None
    /\ Len(w_flushed) < MaxAppendLen
    /\ \E l \in AppendLines :
         /\ disk' = Append(disk, l)
         /\ w_flushed' = Append(w_flushed, l)
    /\ UNCHANGED << statusVarsExceptDisk, renderVars, handlerVars, w_pending >>

\* The writer flushes the beginning of a record only; a record of free text
\* (not a token count) may be cut inside a multi-byte character.
WriterTear ==
    /\ pc \in {"open", "scan"}
    /\ w_pending = None
    /\ Len(w_flushed) < MaxAppendLen
    /\ \E l \in AppendLines, clean \in BOOLEAN :
         /\ clean \/ l = L_OtherEvent
         /\ disk' = Append(disk, TornPiece(clean))
         /\ w_pending' = Some([line |-> l, clean |-> clean])
    /\ UNCHANGED << statusVarsExceptDisk, renderVars, handlerVars, w_flushed >>

\* The writer flushes the rest of the record and its newline: the reader sees
\* the whole record if it had not yet returned the beginning at end of file,
\* and the rest as one more line if it had.
WriterComplete ==
    /\ pc \in {"open", "scan"}
    /\ IsSome(w_pending)
    /\ disk' = IF pos < Len(disk)
               THEN [disk EXCEPT ![Len(disk)] = w_pending.v.line]
               ELSE Append(disk, TornPiece(w_pending.v.clean))
    /\ w_flushed' = Append(w_flushed, w_pending.v.line)
    /\ w_pending' = None
    /\ UNCHANGED << statusVarsExceptDisk, renderVars, handlerVars >>

AppendNext == OpenLog \/ NextLine \/ WriterAppend \/ WriterTear \/ WriterComplete

AppendSpec == AppendInit /\ [][AppendNext]_vars

\* C15 as stated: a scan of a log that is being appended to does not fail for
\* meeting the end of file inside a record: unless the device fails it returns
\* Ok, and what it returns is the last-wins fold of some prefix of the
\* complete records flushed by then, a part of a record counting as a line
\* that matches nothing.
C15_AppendTolerant ==
    (pc = "scanned" /\ io_failure = "none") =>
        /\ IsOk(data.v)
        /\ \E n \in 0..Len(w_flushed) :
             /\ data.v.v.token_usage = LastUsage(Prefix(w_flushed, n))
             /\ data.v.v.rate_limits = LastRateLimits(Prefix(w_flushed, n))

(***************************************************************************)
(* TranscribeMediaHandler::handle.                                         *)
(***************************************************************************)
DEFAULT_TRANSCRIPTION_MODEL == "gpt-4o-mini-transcribe"
MAX_MEDIA_BYTES == 100 * 1024 * 1024
MAX_ERROR_CHARS == 400

\* Text is a sequence of characters; "<e9>" stands for a character of two
\* bytes in UTF-8.
IsWhite(c) == c \in {" ", "\n", "\t"}

\* str::trim
Trim(cs) ==
    LET kept == {i \in 1..Len(cs) : ~IsWhite(cs[i])}
    IN  IF kept = {} THEN << >>
        ELSE SubSeq(cs, CHOOSE i \in kept : \A k \in kept : i <= k, MaxOf(kept))

\* str::len: the length in bytes
ByteLen(cs) == Len(cs) + Cardinality({i \in 1..Len(cs) : cs[i] = "<e9>"})

\* FunctionCallError::RespondToModel(message), the formatted parts kept apart.
RespondToModel(msg, detail) == Err([kind |-> "RespondToModel", msg |-> msg, detail |-> detail])

\* summarize_error_body without the cut.
summarize_error_body_Whole(body) == Trim(body)

\* summarize_error_body: the trimmed body, cut to 397 characters and "..." when
\* it is longer than 400 bytes.
summarize_error_body(body) ==
    LET trimmed == Trim(body)
        keep == MAX_ERROR_CHARS - 3
    IN  IF ByteLen(trimmed) <= MAX_ERROR_CHARS THEN trimmed
        ELSE SubSeq(trimmed, 1, IF Len(trimmed) < keep THEN Len(trimmed) ELSE keep)
                 \o << ".", ".", "." >>

\* path.file_name(), "media" when the path has none.
file_name_for_upload(path) ==
    IF path = << >> \/ path = << ".", "." >> THEN << "m", "e", "d", "i", "a" >> ELSE path

\* HeaderValue::from_str / try_from: no control characters.
HeaderValueOk(str) == str \notin {"bad\n"}

\* The path argument: absent text, blanks, a file name, a name between blanks.
PathArgs == {<< >>, << " ", "\t" >>, << "a" >>, << " ", "a", " " >>, << ".", "." >>}

\* The arguments object, parsed by parse_arguments.
TranscribeMediaArgs ==
    [path : PathArgs, model : {None}, language : {None}, prompt : {None},
     temperature : {None}]
    \cup [path : {<< "a" >>}, model : {Some("whisper-1")}, language : {Some("en")},
          prompt : {Some("names")}, temperature : {Some("0.2")}]

ToolInvocations ==
    {[payload |-> "custom", arguments |-> Err("none")],
     [payload |-> "function", arguments |-> Err("parse")]}
    \cup {[payload |-> "function", arguments |-> Ok(a)] : a \in TranscribeMediaArgs}

\* What fs::metadata finds at the resolved path.
Metadatas ==
    {Err("not found")}
    \cup {Ok([is_file |-> FALSE, len |-> n]) : n \in {0, 4096}}
    \cup {Ok([is_file |-> TRUE, len |-> n]) :
            n \in {0, 1, MAX_MEDIA_BYTES, MAX_MEDIA_BYTES + 1}}

Tokens == {None, Some("dummy"), Some("bad\n")}
AccountIds == {None, Some("acct"), Some("bad\n")}
ProviderHeaders ==
    {<< >>, << [name |-> "x-extra", value |-> "1"] >>,
     << [name |-> "authorization", value |-> "Bearer other"] >>}

\* Transcript texts of a {"text": t} response.
Texts == {<< >>, << " " >>, << "h", "i" >>, << " ", "h", "i", "\n" >>}

LongBody(c) == [i \in 1..(MAX_ERROR_CHARS \div 2 + 1) |-> c] \o [i \in 1..(MAX_ERROR_CHARS \div 2) |-> "x"]

\* Response bodies: a JSON object with a string member text, another JSON
\* object, and text that is not JSON.
Bodies ==
    {[json |-> Some(t), raw |-> << "{", "\"", "t", "e", "x", "t", "\"", ":", "\"" >> \o t
                                 \o << "\"", "}" >>] : t \in Texts \ {<< " ", "h", "i", "\n" >>}}
    \cup {[json |-> Some(<< " ", "h", "i", "\n" >>),
           raw |-> << "{", "\"", "t", "e", "x", "t", "\"", ":", "\"", " ", "h", "i", "\\", "n",
                      "\"", "}" >>]}
    \cup {[json |-> None, raw |-> r] :
            r \in {<< >>, << " ", "\n" >>, << "{", "}" >>, << " ", "o", "k", "\n" >>,
                   LongBody("x"), LongBody("<e9>")}}

StatusCodes == {200, 204, 401}

\* What request.send() and response.text() give.
Responses ==
    {Err("transport")}
    \cup {Ok([status |-> st, body |-> Err("decode")]) : st \in {200, 401}}
    \cup {Ok([status |-> st, body |-> Ok(b)]) : st \in StatusCodes, b \in Bodies}

\* serde_json::from_str::<TranscriptionResponse>(&body)
ParseTranscriptionResponse(body) == IF IsSome(body.json) THEN Ok([text |-> body.json.v]) ELSE Err("json")

\* ToolOutput::Function { body: FunctionCallOutputBody::Text(..), success }
FunctionOutput(text, success) == [body |-> [kind |-> "Text", text |-> text], success |-> success]

TranscribeInit ==
    /\ pc = "auth"
    /\ disk = << >>
    /\ model_provider = None
    /\ InitCommon
    /\ RenderIdle
    /\ HandlerIdle
    /\ WriterIdle

HandlerDone(result) ==
    /\ h_pc' = "done"
    /\ h_result' = Some(result)

\* handle, up to resolve_path: the payload, the arguments, the path.
HandleStart ==
    /\ h_pc = "idle"
    /\ \E inv \in ToolInvocations :
         /\ h_call' = Some(inv)
         /\ IF inv.payload # "function"
            THEN HandlerDone(RespondToModel(
                     "transcribe_media handler received unsupported payload", None))
            ELSE IF IsErr(inv.arguments)
            THEN HandlerDone(RespondToModel("failed to parse function arguments", None))
            ELSE IF Trim(inv.arguments.v.path) = << >>
            THEN HandlerDone(RespondToModel("path cannot be empty", None))
            ELSE h_pc' = "metadata" /\ h_result' = h_result
    /\ UNCHANGED << h_file, h_token, h_sent, h_resp, statusVars, renderVars, writerVars >>

\* Metadata with the limit itself refused.
Metadata_InclusiveLimit ==
    /\ h_pc = "metadata"
    /\ \E md \in Metadatas :
         IF IsErr(md)
         THEN /\ HandlerDone(RespondToModel("unable to locate media file", None))
              /\ h_file' = h_file
         ELSE /\ h_file' = Some([is_file |-> md.v.is_file, len |-> md.v.len,
                                 bytes |-> None])
              /\ IF ~md.v.is_file
                 THEN HandlerDone(RespondToModel("media path is not a file", None))
                 ELSE IF md.v.len = 0
                 THEN HandlerDone(RespondToModel("media file is empty", None))
                 ELSE IF md.v.len >= MAX_MEDIA_BYTES
                 THEN HandlerDone(RespondToModel("media file is too large",
                                     Some([len |-> md.v.len, max |-> MAX_MEDIA_BYTES])))
                 ELSE h_pc' = "read" /\ h_result' = h_result
    /\ UNCHANGED << h_call, h_token, h_sent, h_resp, statusVars, renderVars, writerVars >>

\* fs::metadata and the checks on it.
Metadata ==
    /\ h_pc = "metadata"
    /\ \E md \in Metadatas :
         IF IsErr(md)
         THEN /\ HandlerDone(RespondToModel("unable to locate media file", None))
              /\ h_file' = h_file
         ELSE /\ h_file' = Some([is_file |-> md.v.is_file, len |-> md.v.len,
                                 bytes |-> None])
              /\ IF ~md.v.is_file
                 THEN HandlerDone(RespondToModel("media path is not a file", None))
                 ELSE IF md.v.len = 0
                 THEN HandlerDone(RespondToModel("media file is empty", None))
                 ELSE IF md.v.len > MAX_MEDIA_BYTES
                 THEN HandlerDone(RespondToModel("media file is too large",
                                     Some([len |-> md.v.len, max |-> MAX_MEDIA_BYTES])))
                 ELSE h_pc' = "read" /\ h_result' = h_result
    /\ UNCHANGED << h_call, h_token, h_sent, h_resp, statusVars, renderVars, writerVars >>

\* fs::read: the bytes, which are those counted by the metadata unless the
\* file was replaced in between.
ReadFile ==
    /\ h_pc = "read"
    /\ \E rd \in {Err("io"), Ok(h_file.v.len), Ok(0)} :
         IF IsErr(rd)
         THEN /\ HandlerDone(RespondToModel("failed to read media file", None))
              /\ h_file' = h_file
         ELSE /\ h_file' = Some([h_file.v EXCEPT !.bytes = Some(rd.v)])
              /\ h_pc' = "auth" /\ h_result' = h_result
    /\ UNCHANGED << h_call, h_token, h_sent, h_resp, statusVars, renderVars, writerVars >>

\* turn.provider.to_api_provider(auth_mode)?
ToApiProvider ==
    /\ h_pc = "auth"
    /\ \E api \in {Err("provider"), Ok("api")} :
         IF IsErr(api)
         THEN HandlerDone(RespondToModel("to_api_provider failed", None))
         ELSE h_pc' = "auth_provider" /\ h_result' = h_result
    /\ UNCHANGED << h_call, h_file, h_token, h_sent, h_resp, statusVars, renderVars,
                    writerVars >>

\* auth_provider_from_auth(auth, &turn.provider)?
AuthProviderFromAuth ==
    /\ h_pc = "auth_provider"
    /\ \E ap \in {Err("auth"), Ok("auth_provider")} :
         IF IsErr(ap)
         THEN HandlerDone(RespondToModel("auth_provider_from_auth failed", None))
         ELSE h_pc' = "token" /\ h_result' = h_result
    /\ UNCHANGED << h_call, h_file, h_token, h_sent, h_resp, statusVars, renderVars,
                    writerVars >>

\* auth_provider.bearer_token().ok_or_else(..)?, with what the request will
\* take from the two providers.
BearerToken ==
    /\ h_pc = "token"
    /\ \E tok \in Tokens, acct \in AccountIds, hdrs \in ProviderHeaders :
         IF ~IsSome(tok)
         THEN /\ HandlerDone(RespondToModel(
                     "transcribe_media requires an authenticated provider token", None))
              /\ h_token' = h_token
         ELSE /\ h_token' = Some([token |-> tok.v, account_id |-> acct, headers |-> hdrs])
              /\ h_pc' = "send" /\ h_result' = h_result
    /\ UNCHANGED << h_call, h_file, h_sent, h_resp, statusVars, renderVars, writerVars >>

\* The multipart form of the request.
Form(args, file, path) ==
    [file |-> [bytes |-> file.bytes.v, file_name |-> file_name_for_upload(path)],
     model |-> IF IsSome(args.model) THEN args.model.v ELSE DEFAULT_TRANSCRIPTION_MODEL,
     response_format |-> "json",
     language |-> args.language, prompt |-> args.prompt, temperature |-> args.temperature]

\* The request as built: header() appends, in the order of the calls.
Request(args, file, auth) ==
    [method |-> "POST",
     path |-> "audio/transcriptions",
     headers |-> << [name |-> "authorization", value |-> "Bearer " \o auth.token] >>
                 \o (IF IsSome(auth.account_id) /\ HeaderValueOk(auth.account_id.v)
                     THEN << [name |-> "chatgpt-account-id", value |-> auth.account_id.v] >>
                     ELSE << >>)
                 \o auth.headers,
     form |-> Form(args, file, args.path)]

\* A mutation of Send: the request goes out without the Authorization header.
Send_NoAuthorization ==
    /\ h_pc = "send"
    /\ IF ~HeaderValueOk("Bearer " \o h_token.v.token)
       THEN /\ HandlerDone(RespondToModel("failed to request transcription", None))
            /\ UNCHANGED << h_sent, h_resp >>
       ELSE /\ h_sent' = Append(h_sent,
                   [Request(h_call.v.arguments.v, h_file.v, h_token.v)
                      EXCEPT !.headers = Tail(@)])
            /\ \E resp \in Responses :
                 IF IsErr(resp)
                 THEN /\ HandlerDone(RespondToModel("failed to request transcription", None))
                      /\ h_resp' = h_resp
                 ELSE /\ h_resp' = Some(resp.v)
                      /\ h_pc' = "body" /\ h_result' = h_result
    /\ UNCHANGED << h_call, h_file, h_token, statusVars, renderVars, writerVars >>

\* request.send().await: a request whose header value is refused is not sent.
Send ==
    /\ h_pc = "send"
    /\ IF ~HeaderValueOk("Bearer " \o h_token.v.token)
       THEN /\ HandlerDone(RespondToModel("failed to request transcription", None))
            /\ UNCHANGED << h_sent, h_resp >>
       ELSE /\ h_sent' = Append(h_sent, Request(h_call.v.arguments.v, h_file.v, h_token.v))
            /\ \E resp \in Responses :
                 IF IsErr(resp)
                 THEN /\ HandlerDone(RespondToModel("failed to request transcription", None))
                      /\ h_resp' = h_resp
                 ELSE /\ h_resp' = Some(resp.v)
                      /\ h_pc' = "body" /\ h_result' = h_result
    /\ UNCHANGED << h_call, h_file, h_token, statusVars, renderVars, writerVars >>

\* response.text().await, the status, the transcript.
ReadBody ==
    /\ h_pc = "body"
    /\ LET status == h_resp.v.status
           body == h_resp.v.body
       IN  IF IsErr(body)
           THEN HandlerDone(RespondToModel("failed to read transcription response", None))
           ELSE IF status \notin 200..299
           THEN HandlerDone(RespondToModel("transcription request failed",
                    Some([status |-> status, body |-> summarize_error_body(body.v.raw)])))
           ELSE LET parsed == ParseTranscriptionResponse(body.v)
                    transcript == IF IsOk(parsed) THEN parsed.v.text ELSE Trim(body.v.raw)
                IN  IF transcript = << >>
                    THEN HandlerDone(RespondToModel(
                             "transcription response did not contain text", None))
                    ELSE HandlerDone(Ok(FunctionOutput(transcript, Some(TRUE))))
    /\ UNCHANGED << h_call, h_file, h_token, h_sent, h_resp, statusVars, renderVars,
                    writerVars >>

TranscribeNext ==
    \/ HandleStart
    \/ Metadata
    \/ ReadFile
    \/ ToApiProvider
    \/ AuthProviderFromAuth
    \/ BearerToken
    \/ Send
    \/ ReadBody

TranscribeSpec == TranscribeInit /\ [][TranscribeNext]_vars

\* C20: an invocation with a path to a file that is there and not empty, with
\* a bearer token, and answered 2xx with a JSON body {"text": t}, t not empty,
\* has sent exactly one request, a POST to audio/transcriptions whose first
\* Authorization header is "Bearer <token>", and returns the function output
\* with content exactly t (nothing trimmed) and success = true.
C20_TranscriptReturned ==
    (/\ h_pc = "done"
     /\ IsSome(h_file) /\ h_file.v.is_file /\ h_file.v.len > 0
     /\ IsSome(h_token)
     /\ IsSome(h_resp) /\ h_resp.v.status \in 200..299 /\ IsOk(h_resp.v.body)
     /\ IsSome(h_resp.v.body.v.json) /\ h_resp.v.body.v.json.v # << >>) =>
        /\ Len(h_sent) = 1
        /\ h_sent[1].method = "POST"
        /\ h_sent[1].path = "audio/transcriptions"
        /\ h_sent[1].headers # << >>
        /\ h_sent[1].headers[1] =
               [name |-> "authorization", value |-> "Bearer " \o h_token.v.token]
        /\ h_result = Some(Ok(FunctionOutput(h_resp.v.body.v.json.v, Some(TRUE))))

\* C20 witness: the test's exchange: token "dummy", status 200, a transcript.
C20_Witness ==
    /\ h_pc = "done"
    /\ IsSome(h_token) /\ IsSome(h_resp) /\ IsOk(h_resp.v.body)
    /\ h_token.v.token = "dummy"
    /\ h_resp.v.status = 200
    /\ h_resp.v.body.v.json = Some(<< "h", "i" >>)
    /\ Len(h_sent) = 1
    /\ h_sent[1].headers[1].value = "Bearer dummy"
    /\ h_result = Some(Ok(FunctionOutput(<< "h", "i" >>, Some(TRUE))))

(***************************************************************************)
(* display_rate_limit_bar: what is drawn and what is printed beside it.    *)
(***************************************************************************)
\* C21: the bar shows the percentage remaining: the filled count is the
\* integer nearest to (100 - used_percent) / 100 * 20 (0 when that is
\* negative), the filled cells come first and the empty cells after them, and
\* the number before "% left" is an integer nearest to 100 - used_percent;
\* nothing used gives 20 filled cells and "100% left", all used gives 20 empty
\* cells and "0% left".
C21_RemainingBasis ==
    r_fn = "bar10" =>
        LET p == 1000 - r_in.v.used_x10
            a == IF p < 0 THEN 0 - p ELSE p
            row == r_out.v
        IN  /\ (p >= 0 => 50 * row.filled - p \in (0 - 25)..25)
            /\ (p < 0 => row.filled = 0)
            /\ Len(row.bar) = row.filled + row.empty
            /\ \A i \in 1..Len(row.bar) :
                 row.bar[i] = IF i <= row.filled THEN FULL_BLOCK ELSE LIGHT_SHADE
            /\ \E n \in 0..(100 + UsedMargin + 1) :
                 /\ 10 * n - a \in (0 - 5)..5
                 /\ row.left = (IF p < 0 THEN "-" ELSE "") \o ToString(n) \o "% left"
            /\ (p = 1000 => row.bar = Repeat(FULL_BLOCK, 20) /\ row.left = "100% left")
            /\ (p = 0 => row.bar = Repeat(LIGHT_SHADE, 20) /\ row.left = "0% left")
            /\ (p = 500 => row.filled = 10 /\ row.left = "50% left")

\* C21 witness: 57.5 percent used leaves 42.5: 8.5 cells round to 9, and the
\* number printed is 42.
C21_Witness ==
    /\ r_fn = "bar10"
    /\ r_in.v.used_x10 = 575
    /\ r_out.v.filled = 9
    /\ r_out.v.empty = 11
    /\ r_out.v.left = "42% left"

(***************************************************************************)
(* run_status: the session reported and the session scanned.               *)
(***************************************************************************)
\* C22 as stated: the session whose log the fallback opens and scans is the
\* session whose id the Session row shows, whatever the second list_threads
\* finds.
C22_SameSession ==
    (pc \in {"open", "scan", "scanned"} \/ opens > 0) =>
        /\ IsSome(session_id)
        /\ thread = session_id
        /\ HasRow(out, "Session")
        /\ \A i \in 1..Len(out) :
             out[i].label = "Session" => out[i].value = thread.v

(***************************************************************************)
(* run_status: one quota output; display_rate_limits: its rows.            *)
(***************************************************************************)
\* The snapshot at hand when the quota part is printed: the live one, else the
\* one a successful scan returned, else none.
SnapshotAtHand ==
    IF IsSome(rate_limits) THEN rate_limits
    ELSE IF data # None /\ IsOk(data.v) THEN data.v.v.rate_limits
    ELSE None

\* rows are what one call of display_rate_limits prints for snapshot s: a bar
\* for the primary window if present, then a bar for the secondary window if
\* present, then at most one Credits row, and nothing else.
RowsOfSnapshot(rows, s) ==
    LET np == IF IsSome(s.primary) THEN 1 ELSE 0
        ns == IF IsSome(s.secondary) THEN 1 ELSE 0
    IN  /\ Len(rows) \in {np + ns, np + ns + 1}
        /\ {i \in 1..Len(rows) : rows[i].kind = "bar"} = 1..(np + ns)
        /\ (np = 1 =>
              /\ (IsSome(s.primary.v.window_minutes) =>
                     rows[1].label =
                        format_duration_label(s.primary.v.window_minutes.v) \o " limit")
              /\ (~IsSome(s.primary.v.window_minutes) => rows[1].label = "5h limit")
              /\ rows[1].left =
                     FormatFixed0(1000 - 10 * s.primary.v.used_percent) \o "% left"
              /\ rows[1].resets_at = s.primary.v.resets_at)
        /\ (ns = 1 =>
              /\ (IsSome(s.secondary.v.window_minutes) =>
                     rows[np + 1].label =
                        format_duration_label(s.secondary.v.window_minutes.v) \o " limit")
              /\ (~IsSome(s.secondary.v.window_minutes) =>
                     rows[np + 1].label = "Weekly limit")
              /\ rows[np + 1].left =
                     FormatFixed0(1000 - 10 * s.secondary.v.used_percent) \o "% left"
              /\ rows[np + 1].resets_at = s.secondary.v.resets_at)
        /\ (Len(rows) = np + ns + 1 =>
              /\ rows[Len(rows)].kind = "field"
              /\ rows[Len(rows)].label = "Credits"
              /\ IsSome(s.credits))

\* C23: an invocation prints the rows of exactly one snapshot (the live one or
\* the one from the log, never both sources) and no message, or else the one
\* row "data not available yet" and nothing else; the rows of a snapshot are a
\* bar per window present, primary before secondary, then the credits, and no
\* row for a window that is absent.
C23_ExactlyOneOutput ==
    Finished =>
        LET rows == QuotaRows(out)
        IN  /\ ~(IsSome(rate_limits) /\ data # None)
            /\ IF IsSome(SnapshotAtHand)
               THEN /\ \A i \in 1..Len(rows) : rows[i] # MessageRow("5h limit")
                    /\ RowsOfSnapshot(rows, SnapshotAtHand.v)
               ELSE rows = << MessageRow("5h limit") >>

\* C23 witness: the live snapshot has both windows: two bars, primary first,
\* and no message.
C23_Witness ==
    /\ pc = "exited"
    /\ IsSome(session_id)
    /\ rate_limits = Some(SnapTest)
    /\ Len(QuotaRows(out)) = 2
    /\ QuotaRows(out)[1].label = "5h limit"
    /\ QuotaRows(out)[1].left = "99% left"
    /\ QuotaRows(out)[2].label = "Weekly limit"
    /\ QuotaRows(out)[2].left = "95% left"

\* C24: display_rate_limits prints a Credits row exactly when the snapshot has
\* a credits object with has_credits true and either unlimited true or a
\* balance; it is one row, after the bars, reading "Unlimited" when unlimited
\* is true, balance or not, and "<balance> credits" otherwise.
C24_CreditsRow ==
    r_fn = "rows" =>
        LET c == r_in.v.limits.credits
            rows == r_out.v
            credits == {i \in 1..Len(rows) : rows[i].label = "Credits"}
            shown == /\ IsSome(c)
                     /\ c.v.has_credits
                     /\ (c.v.unlimited \/ IsSome(c.v.balance))
        IN  /\ (shown <=> credits # {})
            /\ (IsSome(c) /\ ~c.v.has_credits => credits = {})
            /\ (shown =>
                  /\ credits = {Len(rows)}
                  /\ rows[Len(rows)].kind = "field"
                  /\ (c.v.unlimited => rows[Len(rows)].value = "Unlimited")
                  /\ (~c.v.unlimited =>
                        rows[Len(rows)].value = c.v.balance.v \o " credits")
                  /\ (~c.v.unlimited /\ c.v.balance = Some("12") =>
                        rows[Len(rows)].value = "12 credits"))

\* C24 witness: unlimited credits with a balance: the row reads "Unlimited".
C24_Witness ==
    /\ r_fn = "rows"
    /\ r_in.v.limits.credits =
           Some([has_credits |-> TRUE, unlimited |-> TRUE, balance |-> Some("12")])
    /\ IsSome(r_in.v.limits.primary)
    /\ Len(r_out.v) = 3
    /\ r_out.v[3] = Field("Credits", "Unlimited")

(***************************************************************************)
(* TranscribeMediaHandler::handle: the checks before the request.          *)
(***************************************************************************)
\* The message of the first check that the state shows to have failed, None
\* when it shows none: payload, arguments, path, metadata, file type, length 0,
\* length over the limit, read.
FirstFailedCheck ==
    LET call == h_call.v
    IN  IF call.payload # "function"
        THEN Some("transcribe_media handler received unsupported payload")
        ELSE IF IsErr(call.arguments) THEN Some("failed to parse function arguments")
        ELSE IF Trim(call.arguments.v.path) = << >> THEN Some("path cannot be empty")
        ELSE IF h_file = None THEN Some("unable to locate media file")
        ELSE IF ~h_file.v.is_file THEN Some("media path is not a file")
        ELSE IF h_file.v.len = 0 THEN Some("media file is empty")
        ELSE IF h_file.v.len > 100 * 1024 * 1024 THEN Some("media file is too large")
        ELSE IF h_file.v.bytes = None THEN Some("failed to read media file")
        ELSE None

NoTokenMessage == "transcribe_media requires an authenticated provider token"

\* The handler returned at this step, with this message and no request sent.
ReturnsError(msg) ==
    /\ h_result' = Some(RespondToModel(msg, h_result'.v.e.detail))
    /\ h_sent' = << >>

\* C25: when a check before the request fails the handler returns a
\* RespondToModel error and has sent nothing; the checks are made in the order
\* payload, arguments, blank path, metadata, file type, length 0, length over
\* 100 * 1024 * 1024 (that length itself passes), read, then the two provider
\* conversions, then the bearer token, and the message is that of the first
\* check that fails.
C25_ChecksBeforeRequest ==
    /\ [](h_sent # << >> =>
            /\ FirstFailedCheck = None
            /\ IsSome(h_token))
    /\ []((h_pc = "done" /\ (FirstFailedCheck # None \/ h_token = None)) =>
            /\ h_sent = << >>
            /\ h_resp = None
            /\ IsErr(h_result.v)
            /\ h_result.v.e.kind = "RespondToModel"
            /\ (FirstFailedCheck # None => h_result.v.e.msg = FirstFailedCheck.v)
            /\ (FirstFailedCheck = None =>
                  h_result.v.e.msg \in {"to_api_provider failed",
                                        "auth_provider_from_auth failed",
                                        NoTokenMessage}))
    /\ [][/\ (h_pc = "metadata" /\ IsSome(h_file') /\ h_file'.v.is_file
                 /\ h_file'.v.len \in 1..(100 * 1024 * 1024) => h_pc' = "read")
          /\ (h_pc = "auth" /\ h_pc' = "done" => ReturnsError("to_api_provider failed"))
          /\ (h_pc = "auth_provider" /\ h_pc' = "done" =>
                 ReturnsError("auth_provider_from_auth failed"))
          /\ (h_pc = "token" => (h_pc' = "done" <=> h_token' = None))
          /\ (h_pc = "token" /\ h_pc' = "done" => ReturnsError(NoTokenMessage))
          /\ (h_pc' = "send" => h_pc = "token" /\ IsSome(h_token'))]_vars

\* C25 witness: a file one byte over the limit is refused before anything is
\* sent.
C25_Witness ==
    /\ h_pc = "done"
    /\ IsSome(h_file)
    /\ h_file.v.is_file
    /\ h_file.v.len = 100 * 1024 * 1024 + 1
    /\ h_sent = << >>
    /\ h_result.v.e.msg = "media file is too large"

\* A file of exactly the limit went on to the request.
C25_LimitAccepted ==
    /\ IsSome(h_file)
    /\ h_file.v.len = 100 * 1024 * 1024
    /\ Len(h_sent) = 1

(***************************************************************************)
(* TranscribeMediaHandler::handle: what is made of the response.           *)
(***************************************************************************)
\* The transcript a 2xx body stands for: its text member when it is a JSON
\* object with one, else the body without the white space around it.
TranscriptOf(body) == IF IsSome(body.json) THEN body.json.v ELSE Trim(body.raw)

\* summary is the body without the white space around it, or its first 397
\* characters followed by "...".
SummaryOf(summary, raw) ==
    \/ summary = Trim(raw)
    \/ /\ ByteLen(Trim(raw)) > 400
       /\ Len(summary) >= 3
       /\ SubSeq(summary, Len(summary) - 2, Len(summary)) = << ".", ".", "." >>
       /\ Len(summary) - 3 <= 397
       /\ SubSeq(summary, 1, Len(summary) - 3) = SubSeq(Trim(raw), 1, Len(summary) - 3)
       /\ (Len(summary) - 3 < 397 => Len(summary) - 3 = Len(Trim(raw)))

\* C26: once the request is sent, a transport error or an unreadable body gives
\* an error; a status outside 2xx gives an error with the status and a summary
\* of the body of at most 400 characters; a 2xx body gives its text member, or
\* the trimmed body when it is not such an object; an empty transcript gives
\* the error "transcription response did not contain text"; so a success always
\* carries a non-empty transcript.
C26_ResponseHandling ==
    (h_pc = "done" /\ h_sent # << >>) =>
        LET res == h_result.v
        IN  /\ (IsOk(res) => res.v.body.text # << >> /\ res.v.success = Some(TRUE))
            /\ IF h_resp = None
               THEN res = RespondToModel("failed to request transcription", None)
               ELSE LET status == h_resp.v.status
                        body == h_resp.v.body
                    IN  IF IsErr(body)
                        THEN res = RespondToModel("failed to read transcription response", None)
                        ELSE IF status < 200 \/ status > 299
                        THEN /\ IsErr(res)
                             /\ res.e.kind = "RespondToModel"
                             /\ res.e.msg = "transcription request failed"
                             /\ IsSome(res.e.detail)
                             /\ res.e.detail.v.status = status
                             /\ Len(res.e.detail.v.body) <= 400
                             /\ SummaryOf(res.e.detail.v.body, body.v.raw)
                        ELSE IF TranscriptOf(body.v) = << >>
                        THEN res = RespondToModel(
                                       "transcription response did not contain text", None)
                        ELSE /\ IsOk(res)
                             /\ res.v.body = [kind |-> "Text", text |-> TranscriptOf(body.v)]

\* C26 witness: a 401 whose body of 401 characters, 602 bytes, came back as a
\* summary of exactly 400 characters.
C26_Witness ==
    /\ h_pc = "done"
    /\ h_sent # << >>
    /\ IsSome(h_resp)
    /\ h_resp.v.status = 401
    /\ IsOk(h_resp.v.body)
    /\ h_resp.v.body.v.raw = LongBody("<e9>")
    /\ IsErr(h_result.v)
    /\ IsSome(h_result.v.e.detail)
    /\ Len(h_result.v.e.detail.v.body) = 400

\* A 2xx reply without text was refused rather than returned empty.
C26_EmptyRefused ==
    /\ h_pc = "done"
    /\ IsSome(h_resp)
    /\ h_resp.v.status = 204
    /\ h_result = Some(RespondToModel("transcription response did not contain text", None))

====
